---- MODULE Spec2Model ----
(***************************************************************************)
(* A model of autofs-gui: the privilege escalation runner, the host        *)
(* discovery cache, the map file builder / parser / validator, the         *)
(* fuse.conf editor, the CLI build flow and the state repository.          *)
(*                                                                         *)
(* Text is modelled as a sequence of symbols.  A symbol is one character,  *)
(* except that a fixed literal of the program which no input can overlap   *)
(* (a keyword such as "IdentityFile", a message prefix) is one symbol.     *)
(* Every text operation (strip, split, replace, startswith, in) is         *)
(* computed on these sequences the way Python computes it on characters.   *)
(***************************************************************************)
EXTENDS Integers, Sequences, FiniteSets, TLC

VARIABLES
    \* ---- privilege escalation runner (sudo_runner.py)
    CACHED_PASS,   \* _CACHED_PASS: the process-wide cached password, or None
    sudoPc,        \* position of the one caller inside run_sudo / CommandRunner.run
    sudoCmd,       \* cmd argument of the call in progress
    sudoAsk,       \* whether the caller supplied ask_pass
    attempts,      \* local attempts of run_sudo
    passwd,        \* local passwd of run_sudo
    sudoRet,       \* (rc, out, err) returned by the call, or NoRet
    prompts,       \* history: ask_pass invocations of the call in progress
    runs,          \* history: the sudo -S runs of the call in progress
    timedOut,      \* history: the executed command of this call exceeded its timeout
    warm,          \* history: password cached by the preceding call when it
                   \*          failed once with "incorrect password" and then succeeded
    sudoCalls,     \* number of calls started (bounded)
    accepted,      \* passwords with which a sudo -S run has exited 0 so far
    \* ---- network host discovery (hosts.py)
    CACHE,         \* _CACHE: the cached list of candidates
    CACHE_TS,      \* _CACHE_TS: time.time() when the cache was stored
    now,           \* the clock read by time.time()
    discPc,        \* position of the caller inside discover_hosts
    discForce,     \* force argument of the call in progress
    pending,       \* futures of the pass not yet yielded by as_completed
    results,       \* local results of discover_hosts
    seen,          \* local seen of discover_hosts
    discRet,       \* list returned by the call
    failed,        \* history: sources of this pass that failed
    outputs,       \* history: candidates each source of this pass returned
    invoked,       \* history: this call submitted the five sources
    callStart,     \* history: clock at the entry of this call
    prev,          \* history: the preceding call (its entry time and its list)
    discCalls,     \* number of calls started (bounded)
    \* ---- validator, map file builder and parser (pure functions)
    mapPc,         \* which functions have been applied to the input
    ent,           \* the entry given to validate_entry / build_map_line
    entries,       \* the entry list given to build_map_file
    khExists,      \* os.path.exists(<identity dir>/known_hosts)
    verdict,       \* validate_entry(ent): "ok" or the rule it raised for
    lineRes,       \* build_map_line(ent): the line, or the error raised
    parsed,        \* parse_map_text(<the line built>)
    fileRes,       \* build_map_file(entries): the text, or the error raised
    \* ---- UseCases.enable_user_allow_other on the FUSE config file
    fuseExists,    \* the FUSE config file exists
    fuseFile,      \* its content
    fuseReadable,  \* files.read can open it
    fuseTmp,       \* content of /tmp/fuse.conf.user_allow_other
    fusePc,        \* position inside the running call
    fuseNew,       \* local: new
    fuseCalls,     \* calls finished
    fuseRaised,    \* calls that ended by raising
    fuseHistory,   \* content of the file when each finished call ended
    \* ---- command line: cmd_build
    cliPc,         \* position inside cmd_build
    cliArgs,       \* args.write, args.restart, args.timeout, args.ghost
    cliRoot,       \* is_root()
    cliEntries,    \* entries resolved by _resolve_entries
    cliBodies,     \* (master_body, map_body)
    cliRes,        \* res of write_config: "none", "returned" or "raised"
    cliTemporary,  \* res["temporary"]
    cliEvents,     \* calls made so far, in order
    cliRestartRc,  \* rc of use.service("restart")
    cliExit,       \* exit code of the command, -1 while running
    etcFiles,      \* content of the two managed paths
    tmpFiles,      \* content of the two /tmp fallbacks
    cliCmd,        \* the subcommand and its argument
    cliOpRc,       \* exit code returned by the operation of a plain subcommand
    cliCopyRc,     \* exit code of write_config's privileged copy (-1: no copy made)
    cliOut,        \* what the command printed, in order
    cliReturned,   \* the mapping write_config returned
    cliSudo,       \* commands handed to run_sudo, in order
    \* ---- state repository: save_state / load_state with AppState
    stFile,        \* the state file: absent, unparseable, or a JSON document
    stPc,          \* "idle", "saved" (save_state returned), "loaded"
    stSaved,       \* the AppState last saved
    stRaw,         \* the mapping load_state returned last
    stLoaded,      \* AppState.from_dict of it, or the error raised
    \* ---- main window: debounced auto-apply (main_window.py)
    dirty,                 \* _dirty
    is_applying,           \* _is_applying
    pending_apply_reason,  \* _pending_apply_reason, or None
    apply_timer,           \* ms left on the single-shot _apply_timer, -1 when not running
    passStack,             \* the _apply_changes calls on the call stack, innermost last
    guiDialog,             \* the entry dialog open below them: "none", "add", "edit", "delete"
    guiLog,                \* what the pass in progress (or the last one) attempted, in order
    guiReason,             \* the local `reason` of that pass
    guiEdits,              \* state-mutating actions made so far
    guiLastEdit,           \* the kind of the last one
    guiBurst,              \* actions scheduled since the last pass started
    guiMissed,             \* actions made during a pass since the last pass started
    guiPasses,             \* passes started so far
    guiService,            \* the service state shown by the status monitor
    \* ---- main window: service status indicator (main_window.py)
    last_status_state,     \* _last_status_state, or None
    statusLog,             \* log lines appended by _set_service_state, in order
    statusCalls,           \* calls of _set_service_state so far
    statusPc,              \* "created", "started" (monitor started), "polling"
    \* ---- UseCases.parse_master_options (use_cases/main.py)
    master_txt,            \* the master file text handed to the parser
    moTokens,              \* the whitespace-delimited tokens it was made of
    moPc,                  \* "start", "parsed"
    moRes,                 \* the (timeout, ghost) returned
    \* ---- CLI _resolve_entries (presentation/cli/main.py)
    reSource,              \* "from_state", "entries_json" or "system"
    reArgs,                \* args.timeout and args.ghost, each given or not
    reStored,              \* the AppState last saved by the GUI
    reFile,                \* the state file
    reSystem,              \* what load_from_system returns
    rePc,                  \* "start", "resolved"
    reRes,                 \* the (timeout, ghost) returned
    \* ---- main window: construction (main_window.py __init__)
    suPc,                  \* "new", "constructed", "loaded", "done", "crashed"
    suStateFile,           \* the persisted state file
    suMaster,              \* the installed master file: exists, text
    suMap,                 \* the installed map file: exists, text
    suApp,                 \* self.app_state
    suDirty,               \* self._dirty
    suSaved                \* "none", "written", "failed": the save at the end of the load

sudoVars == <<CACHED_PASS, sudoPc, sudoCmd, sudoAsk, attempts, passwd, sudoRet,
              prompts, runs, timedOut, warm, sudoCalls, accepted>>

discVars == <<CACHE, CACHE_TS, now, discPc, discForce, pending, results, seen,
              discRet, failed, outputs, invoked, callStart, prev, discCalls>>

mapVars == <<mapPc, ent, entries, khExists, verdict, lineRes, parsed, fileRes>>

fuseVars == <<fuseExists, fuseFile, fuseReadable, fuseTmp, fusePc, fuseNew,
              fuseCalls, fuseRaised, fuseHistory>>

cliVars == <<cliPc, cliArgs, cliRoot, cliEntries, cliBodies, cliRes, cliTemporary,
             cliEvents, cliRestartRc, cliExit, etcFiles, tmpFiles,
             cliCmd, cliOpRc, cliCopyRc, cliOut, cliReturned, cliSudo>>

stVars == <<stFile, stPc, stSaved, stRaw, stLoaded>>

guiVars == <<dirty, is_applying, pending_apply_reason, apply_timer, passStack,
             guiDialog, guiLog, guiReason, guiEdits, guiLastEdit, guiBurst, guiMissed,
             guiPasses, guiService>>

statusVars == <<last_status_state, statusLog, statusCalls, statusPc>>

moVars == <<master_txt, moTokens, moPc, moRes>>

reVars == <<reSource, reArgs, reStored, reFile, reSystem, rePc, reRes>>

suVars == <<suPc, suStateFile, suMaster, suMap, suApp, suDirty, suSaved>>

vars == <<sudoVars, discVars, mapVars, fuseVars, cliVars, stVars, guiVars,
          statusVars, moVars, reVars, suVars>>

\* What the actions of one component leave alone.
notSudo == <<discVars, mapVars, fuseVars, cliVars, stVars, guiVars,
    statusVars, moVars, reVars, suVars>>
notDisc == <<sudoVars, mapVars, fuseVars, cliVars, stVars, guiVars,
    statusVars, moVars, reVars, suVars>>
notMap == <<sudoVars, discVars, fuseVars, cliVars, stVars, guiVars,
    statusVars, moVars, reVars, suVars>>
notFuse == <<sudoVars, discVars, mapVars, cliVars, stVars, guiVars,
    statusVars, moVars, reVars, suVars>>
notCli == <<sudoVars, discVars, mapVars, fuseVars, stVars, guiVars,
    statusVars, moVars, reVars, suVars>>
notSt == <<sudoVars, discVars, mapVars, fuseVars, cliVars, guiVars,
    statusVars, moVars, reVars, suVars>>
notGui == <<sudoVars, discVars, mapVars, fuseVars, cliVars, stVars,
    statusVars, moVars, reVars, suVars>>
notStatus == <<sudoVars, discVars, mapVars, fuseVars, cliVars, stVars, guiVars,
    moVars, reVars, suVars>>
notMo == <<sudoVars, discVars, mapVars, fuseVars, cliVars, stVars, guiVars,
    statusVars, reVars, suVars>>
notRe == <<sudoVars, discVars, mapVars, fuseVars, cliVars, stVars, guiVars,
    statusVars, moVars, suVars>>
notSu == <<sudoVars, discVars, mapVars, fuseVars, cliVars, stVars, guiVars,
    statusVars, moVars, reVars>>

None == "<None>"

(***************************************************************************)
(* Text helpers                                                            *)
(***************************************************************************)
WhiteSpace == {" ", "\t", "\n"}

RECURSIVE LStrip(_)
LStrip(s) == IF s # <<>> /\ Head(s) \in WhiteSpace THEN LStrip(Tail(s)) ELSE s

RECURSIVE RStrip(_)
RStrip(s) ==
    IF s # <<>> /\ s[Len(s)] \in WhiteSpace THEN RStrip(SubSeq(s, 1, Len(s) - 1)) ELSE s

\* str.strip()
Strip(s) == RStrip(LStrip(s))

\* str.startswith(p)
StartsWith(s, p) == Len(s) >= Len(p) /\ SubSeq(s, 1, Len(p)) = p

\* p in s
Contains(s, p) ==
    \E i \in 1..(Len(s) - Len(p) + 1) : SubSeq(s, i, i + Len(p) - 1) = p

\* str.replace(old, new): leftmost, non-overlapping occurrences (old non-empty)
RECURSIVE Replace(_, _, _)
Replace(s, old, new) ==
    IF s = <<>> THEN <<>>
    ELSE IF StartsWith(s, old)
         THEN new \o Replace(SubSeq(s, Len(old) + 1, Len(s)), old, new)
         ELSE <<Head(s)>> \o Replace(Tail(s), old, new)

\* str.lower(), symbol by symbol
LowerSym(c) ==
    CASE c = "Incorrect Password" -> "incorrect password"
      [] c = "A" -> "a"
      [] c = "B" -> "b"
      [] OTHER -> c

Lower(s) == [i \in 1..Len(s) |-> LowerSym(s[i])]

(***************************************************************************)
(* System command runner and privilege escalation runner                   *)
(***************************************************************************)
MaxSudoCalls == 2

\* Commands handed to the runners.
Cmds == { <<"l", "s">>,
          <<"l", "s", " ", "/", "m">>,
          <<"l", "s", " ", "'", "/", "m", " ", "d", "'">> }

\* Passwords a prompt can yield; a prompt can also yield None or "".
Passwords == {"pw1", "pw2"}
AskAnswers == Passwords \cup {None, ""}

TimeoutPrefix == <<"Timeout executing: ">>
SudoNPrefix == <<"sudo -n bash -lc ">>
ErrNoPassword == <<"sudo password not provided">>
ErrAuthFailed == <<"sudo authentication failed">>
IncorrectPassword == <<"incorrect password">>
PasswordRequired == <<"a password is required">>

\* What subprocess.run can do with a command: exceed the timeout, or exit
\* with a code and raw (untrimmed) output.
ProcTimeout == [kind |-> "timeout", rc |-> 0, out |-> <<>>, err |-> <<>>]
ProcExit(rc, out, err) == [kind |-> "exit", rc |-> rc, out |-> out, err |-> err]
ProcOutcomes ==
    { ProcTimeout,
      ProcExit(0, <<"o", "\n">>, <<>>),
      ProcExit(0, <<>>, <<"w", "\n">>),
      ProcExit(1, <<>>, <<"sudo: 1 ", "incorrect password", " attempt", "\n">>),
      ProcExit(1, <<>>, <<"sudo: ", "a password is required", "\n">>),
      ProcExit(1, <<"o">>, <<"f">>),
      ProcExit(2, <<>>, <<"f", "\n">>),
      ProcExit(2, <<>>, <<"Incorrect Password">>) }

Result(rc, out, err) == [rc |-> rc, out |-> out, err |-> err]

\* No result yet (the call has not returned); rc -1 is no exit code.
NoRet == [rc |-> -1, out |-> <<>>, err |-> <<>>]

\* shlex.quote
SafeChars == {"l", "s", "/", "m", "d", "a", "b"}
sh_quote(s) ==
    IF s = <<>> THEN <<"'", "'">>
    ELSE IF \A i \in 1..Len(s) : s[i] \in SafeChars THEN s
    ELSE <<"'">> \o Replace(s, <<"'">>, <<"'", "\"", "'", "\"", "'">>) \o <<"'">>

\* CommandRunner.run(cmd, timeout) given what the subprocess does
CommandRunner_run(cmd, o) ==
    IF o.kind = "timeout"
    THEN Result(124, <<>>, TimeoutPrefix \o cmd)
    ELSE Result(o.rc, Strip(o.out), Strip(o.err))

\* have_sudo_noninteractive given what `sudo -n true` does
have_sudo_noninteractive(o) == CommandRunner_run(<<"sudo -n true">>, o).rc = 0

\* not passwd
Falsy(p) == p = None \/ p = ""

\* run_sudo, the body of one loop iteration after subprocess.run: the new
\* cache, the result returned (NoRet: continue the loop).
SudoAfterProc_NoCache(cache, pw, cmd, o) ==
    LET out == Strip(o.out)
        err == Strip(o.err)
    IN  IF o.kind = "timeout"
        THEN [cache |-> cache, ret |-> Result(124, <<>>, TimeoutPrefix \o cmd)]
        ELSE IF o.rc = 0
        THEN [cache |-> cache, ret |-> Result(o.rc, out, err)]
        ELSE IF \/ Contains(Lower(err), IncorrectPassword)
                \/ Contains(Lower(err), PasswordRequired)
                \/ o.rc = 1
        THEN [cache |-> None, ret |-> NoRet]
        ELSE [cache |-> cache, ret |-> Result(o.rc, out, err)]

SudoAfterProc(cache, pw, cmd, o) ==
    LET out == Strip(o.out)
        err == Strip(o.err)
    IN  IF o.kind = "timeout"
        THEN [cache |-> cache, ret |-> Result(124, <<>>, TimeoutPrefix \o cmd)]
        ELSE IF o.rc = 0
        THEN [cache |-> pw, ret |-> Result(o.rc, out, err)]
        ELSE IF \/ Contains(Lower(err), IncorrectPassword)
                \/ Contains(Lower(err), PasswordRequired)
                \/ o.rc = 1
        THEN [cache |-> None, ret |-> NoRet]
        ELSE [cache |-> cache, ret |-> Result(o.rc, out, err)]

SudoInit ==
    /\ CACHED_PASS = None
    /\ sudoPc = "idle"
    /\ sudoCmd = <<>>
    /\ sudoAsk = FALSE
    /\ attempts = 0
    /\ passwd = None
    /\ sudoRet = NoRet
    /\ prompts = 0
    /\ runs = <<>>
    /\ timedOut = FALSE
    /\ warm = None
    /\ sudoCalls = 0
    /\ accepted = {}

\* A caller enters run_sudo(cmd, timeout, ask_pass).
SudoCall ==
    /\ UNCHANGED notSudo
    /\ UNCHANGED accepted
    /\ sudoPc = "idle"
    /\ sudoCalls < MaxSudoCalls
    /\ \E c \in Cmds, ap \in BOOLEAN :
        /\ sudoCmd' = c
        /\ sudoAsk' = ap
    /\ sudoPc' = "probe"
    /\ sudoCalls' = sudoCalls + 1
    /\ attempts' = 0
    /\ passwd' = None
    /\ sudoRet' = NoRet
    /\ prompts' = 0
    /\ runs' = <<>>
    /\ timedOut' = FALSE
    /\ UNCHANGED <<CACHED_PASS, warm>>

\* A caller enters CommandRunner.run(cmd, timeout) directly.
RunnerCall ==
    /\ UNCHANGED notSudo
    /\ UNCHANGED accepted
    /\ sudoPc = "idle"
    /\ sudoCalls < MaxSudoCalls
    /\ \E c \in Cmds, o \in ProcOutcomes :
        /\ sudoCmd' = c
        /\ sudoRet' = CommandRunner_run(c, o)
        /\ timedOut' = (o.kind = "timeout")
    /\ sudoPc' = "ran"
    /\ sudoCalls' = sudoCalls + 1
    /\ runs' = <<>>
    /\ prompts' = 0
    /\ UNCHANGED <<CACHED_PASS, sudoAsk, attempts, passwd, warm>>

\* line 17: the `sudo -n true` probe
SudoProbe ==
    /\ UNCHANGED notSudo
    /\ UNCHANGED accepted
    /\ sudoPc = "probe"
    /\ \E o \in ProcOutcomes :
        sudoPc' = IF have_sudo_noninteractive(o) THEN "nopass" ELSE "loop"
    /\ UNCHANGED <<CACHED_PASS, sudoCmd, sudoAsk, attempts, passwd, sudoRet,
                   prompts, runs, timedOut, warm, sudoCalls>>

\* line 18: passwordless sudo
SudoNoPass ==
    /\ UNCHANGED notSudo
    /\ UNCHANGED accepted
    /\ sudoPc = "nopass"
    /\ \E o \in ProcOutcomes :
        /\ sudoRet' = CommandRunner_run(SudoNPrefix \o sh_quote(sudoCmd), o)
        /\ timedOut' = (o.kind = "timeout")
    /\ sudoPc' = "done"
    /\ UNCHANGED <<CACHED_PASS, sudoCmd, sudoAsk, attempts, passwd,
                   prompts, runs, warm, sudoCalls>>

\* lines 22-29: loop test, password from the cache, no password available
SudoLoop_ThreeAttempts ==
    /\ UNCHANGED notSudo
    /\ UNCHANGED accepted
    /\ sudoPc = "loop"
    /\ IF attempts < 3
       THEN /\ attempts' = attempts + 1
            /\ passwd' = CACHED_PASS
            /\ IF Falsy(CACHED_PASS) /\ sudoAsk
               THEN sudoPc' = "ask" /\ sudoRet' = sudoRet
               ELSE IF Falsy(CACHED_PASS)
               THEN sudoPc' = "done" /\ sudoRet' = Result(1, <<>>, ErrNoPassword)
               ELSE sudoPc' = "exec" /\ sudoRet' = sudoRet
       ELSE /\ sudoPc' = "done"
            /\ sudoRet' = Result(1, <<>>, ErrAuthFailed)
            /\ UNCHANGED <<attempts, passwd>>
    /\ UNCHANGED <<CACHED_PASS, sudoCmd, sudoAsk, prompts, runs, timedOut, warm, sudoCalls>>

SudoLoop ==
    /\ UNCHANGED notSudo
    /\ UNCHANGED accepted
    /\ sudoPc = "loop"
    /\ IF attempts < 2
       THEN /\ attempts' = attempts + 1
            /\ passwd' = CACHED_PASS
            /\ IF Falsy(CACHED_PASS) /\ sudoAsk
               THEN sudoPc' = "ask" /\ sudoRet' = sudoRet
               ELSE IF Falsy(CACHED_PASS)
               THEN sudoPc' = "done" /\ sudoRet' = Result(1, <<>>, ErrNoPassword)
               ELSE sudoPc' = "exec" /\ sudoRet' = sudoRet
       ELSE /\ sudoPc' = "done"
            /\ sudoRet' = Result(1, <<>>, ErrAuthFailed)
            /\ UNCHANGED <<attempts, passwd>>
    /\ UNCHANGED <<CACHED_PASS, sudoCmd, sudoAsk, prompts, runs, timedOut, warm, sudoCalls>>

\* line 26: passwd = ask_pass() or ""
SudoAsk ==
    /\ UNCHANGED notSudo
    /\ UNCHANGED accepted
    /\ sudoPc = "ask"
    /\ \E a \in AskAnswers :
        LET p == IF Falsy(a) THEN "" ELSE a
        IN  /\ passwd' = p
            /\ IF Falsy(p)
               THEN sudoPc' = "done" /\ sudoRet' = Result(1, <<>>, ErrNoPassword)
               ELSE sudoPc' = "exec" /\ sudoRet' = sudoRet
    /\ prompts' = prompts + 1
    /\ UNCHANGED <<CACHED_PASS, sudoCmd, sudoAsk, attempts, runs, timedOut, warm, sudoCalls>>

\* lines 31-45: one `sudo -S` run and what follows it
SudoExec_CacheBeforeRun ==
    /\ UNCHANGED notSudo
    /\ sudoPc = "exec"
    /\ \E o \in ProcOutcomes :
        LET r == SudoAfterProc(passwd, passwd, sudoCmd, o)
        IN  /\ CACHED_PASS' = r.cache
            /\ sudoRet' = r.ret
            /\ sudoPc' = IF r.ret = NoRet THEN "loop" ELSE "done"
            /\ runs' = Append(runs, [pw |-> passwd, res |-> o])
            /\ timedOut' = (o.kind = "timeout")
            /\ accepted' = IF o.kind = "exit" /\ o.rc = 0
                           THEN accepted \cup {passwd} ELSE accepted
    /\ UNCHANGED <<sudoCmd, sudoAsk, attempts, passwd, prompts, warm, sudoCalls>>

SudoExec ==
    /\ UNCHANGED notSudo
    /\ sudoPc = "exec"
    /\ \E o \in ProcOutcomes :
        LET r == SudoAfterProc(CACHED_PASS, passwd, sudoCmd, o)
        IN  /\ CACHED_PASS' = r.cache
            /\ sudoRet' = r.ret
            /\ sudoPc' = IF r.ret = NoRet THEN "loop" ELSE "done"
            /\ runs' = Append(runs, [pw |-> passwd, res |-> o])
            /\ timedOut' = (o.kind = "timeout")
            /\ accepted' = IF o.kind = "exit" /\ o.rc = 0
                           THEN accepted \cup {passwd} ELSE accepted
    /\ UNCHANGED <<sudoCmd, sudoAsk, attempts, passwd, prompts, warm, sudoCalls>>

IsIncorrectPassword(o) ==
    o.kind = "exit" /\ o.rc # 0 /\ Contains(Lower(Strip(o.err)), IncorrectPassword)

IsSuccess(o) == o.kind = "exit" /\ o.rc = 0

\* The call in progress failed once with "incorrect password" and then succeeded.
RetriedThenSucceeded ==
    /\ Len(runs) = 2
    /\ IsIncorrectPassword(runs[1].res)
    /\ IsSuccess(runs[2].res)

\* The caller takes the result.
SudoReturn ==
    /\ UNCHANGED notSudo
    /\ UNCHANGED accepted
    /\ sudoPc \in {"done", "ran"}
    /\ sudoPc' = "idle"
    /\ warm' = IF sudoPc = "done" /\ RetriedThenSucceeded THEN runs[2].pw ELSE None
    /\ UNCHANGED <<CACHED_PASS, sudoCmd, sudoAsk, attempts, passwd, sudoRet,
                   prompts, runs, timedOut, sudoCalls>>

SudoNext ==
    \/ SudoCall
    \/ RunnerCall
    \/ SudoProbe
    \/ SudoNoPass
    \/ SudoLoop
    \/ SudoAsk
    \/ SudoExec
    \/ SudoReturn


\* A failed run after which run_sudo clears the cache and tries again.
IsRejected(o) ==
    /\ o.kind = "exit"
    /\ o.rc # 0
    /\ \/ Contains(Lower(Strip(o.err)), IncorrectPassword)
       \/ Contains(Lower(Strip(o.err)), PasswordRequired)
       \/ o.rc = 1

\* C1, first half: a call whose first sudo -S run failed with "incorrect
\* password" and whose second run exited 0 returns the second run's result
\* and leaves the password of that run in the cache.
C1_RetryResult ==
    sudoPc = "done" /\ RetriedThenSucceeded =>
        /\ sudoRet = Result(0, Strip(runs[2].res.out), Strip(runs[2].res.err))
        /\ CACHED_PASS = runs[2].pw

\* C1 as stated: ... and the call that follows never invokes the prompt.
C1_Original ==
    /\ C1_RetryResult
    /\ (warm # None /\ sudoPc # "idle" => prompts = 0)

\* C1 amended: ... and the call that follows makes its first sudo -S run with
\* the cached password and without prompting; it invokes the prompt only
\* after that run was rejected (incorrect password, password required or
\* exit code 1), which clears the cache.
C1_RetryWarmsCache ==
    /\ C1_RetryResult
    /\ (warm # None /\ sudoPc # "idle" =>
            /\ (runs # <<>> => runs[1].pw = warm)
            /\ (prompts > 0 => runs # <<>> /\ IsRejected(runs[1].res)))

\* A call after a retried-then-successful one has run sudo -S with the cached
\* password, succeeded and returned without a prompt.
C1_Witness ==
    /\ warm # None
    /\ sudoPc = "done"
    /\ Len(runs) = 1
    /\ runs[1].pw = warm
    /\ IsSuccess(runs[1].res)
    /\ prompts = 0

\* C4 as stated: when the executed command exceeds its timeout,
\* CommandRunner.run and run_sudo return exit code 124, empty stdout and an
\* error message containing the original command text, and run_sudo makes no
\* further sudo -S run after the one that timed out.
C4_Original ==
    timedOut /\ sudoPc \in {"done", "ran"} =>
        /\ sudoRet.rc = 124
        /\ sudoRet.out = <<>>
        /\ Contains(sudoRet.err, sudoCmd)
        /\ (runs # <<>> => runs[Len(runs)].res.kind = "timeout")

\* The password loop of run_sudo was entered: passwordless sudo is unavailable.
InPasswordLoop == sudoPc \in {"loop", "ask", "exec"}
PasswordLoopEnded == sudoPc = "done" /\ attempts > 0

\* sudo itself refused the password: a failed run whose stderr carries one of
\* sudo's two messages.
IsAuthFailure(o) ==
    /\ o.kind = "exit"
    /\ o.rc # 0
    /\ \/ Contains(Lower(Strip(o.err)), IncorrectPassword)
       \/ Contains(Lower(Strip(o.err)), PasswordRequired)

\* sudo accepted the password and the command itself exited non-zero.
IsCommandFailure(o) == o.kind = "exit" /\ o.rc # 0 /\ ~IsAuthFailure(o)

C18_Bounded ==
    /\ Len(runs) <= 2
    /\ prompts <= 2
    /\ attempts <= 2
    /\ (PasswordLoopEnded /\ Len(runs) = 2
          /\ IsAuthFailure(runs[1].res) /\ IsAuthFailure(runs[2].res)
        => sudoRet = Result(1, <<>>, ErrAuthFailed))
    /\ (PasswordLoopEnded /\ Falsy(passwd)
        => /\ sudoRet = Result(1, <<>>, ErrNoPassword)
           /\ Len(runs) = attempts - 1
           /\ (attempts = 1 => runs = <<>>))

\* C18: with passwordless sudo unavailable, one run_sudo call makes at most
\* two sudo -S runs and at most two prompts and always ends; after two
\* authentication failures it returns (1, "", "sudo authentication failed");
\* an attempt for which no password is available returns
\* (1, "", "sudo password not provided") and makes no sudo -S run.
C18_TwoAttemptsThenStop ==
    /\ []C18_Bounded
    /\ (InPasswordLoop ~> sudoPc = "done")

C18_Witness ==
    /\ PasswordLoopEnded
    /\ Len(runs) = 2
    /\ prompts = 2
    /\ IsAuthFailure(runs[1].res) /\ IsAuthFailure(runs[2].res)
    /\ sudoRet = Result(1, <<>>, ErrAuthFailed)

\* A call that found no password at all: nothing cached, the prompt gave none.
C18_WitnessNoPassword ==
    /\ PasswordLoopEnded
    /\ prompts = 1
    /\ runs = <<>>
    /\ sudoRet = Result(1, <<>>, ErrNoPassword)

\* C19 as stated: when sudo accepts the password and the command itself
\* exits non-zero, run_sudo runs it once and returns its exit code, stdout
\* and stderr; a second run, a cleared cache or "sudo authentication failed"
\* comes only after an authentication failure.
C19_Original ==
    /\ (PasswordLoopEnded /\ runs # <<>> /\ IsCommandFailure(runs[1].res)
        => /\ Len(runs) = 1
           /\ sudoRet = Result(runs[1].res.rc, Strip(runs[1].res.out),
                               Strip(runs[1].res.err)))
    /\ (PasswordLoopEnded /\ (Len(runs) = 2 \/ sudoRet.err = ErrAuthFailed)
        => IsAuthFailure(runs[1].res))

\* What holds instead: a command failure is passed through after one run
\* when its exit code is not 1.
C19_PassThroughUnlessExitOne ==
    PasswordLoopEnded /\ runs # <<>> /\ IsCommandFailure(runs[1].res)
      /\ runs[1].res.rc # 1
    => /\ Len(runs) = 1
       /\ sudoRet = Result(runs[1].res.rc, Strip(runs[1].res.out),
                           Strip(runs[1].res.err))

\* A sudo -S run has just been made; the run.
RunStep == Len(runs') = Len(runs) + 1
LastRun == runs'[Len(runs')]

C26_CacheRule ==
    /\ (CACHED_PASS' # CACHED_PASS /\ CACHED_PASS' # None =>
            /\ RunStep
            /\ IsSuccess(LastRun.res)
            /\ LastRun.pw = CACHED_PASS')
    /\ (RunStep /\ LastRun.res.kind = "timeout" => CACHED_PASS' = CACHED_PASS)
    /\ (sudoRet' # sudoRet /\ sudoRet' = Result(1, <<>>, ErrNoPassword) =>
            CACHED_PASS' = CACHED_PASS)

\* C26: over any sequence of run_sudo calls the cached password is absent
\* or is a password with which a sudo -S run exited 0; it is set only by
\* such a run, and a timeout or a missing password leaves it as it was.
C26_CacheOnlyAfterSuccess ==
    /\ [](CACHED_PASS = None \/ CACHED_PASS \in accepted)
    /\ [][C26_CacheRule]_vars

\* A later call ran sudo -S with the cached password, timed out, and the
\* cache still holds that password.
C26_Witness ==
    /\ sudoPc = "done"
    /\ sudoCalls = 2
    /\ Len(runs) = 1
    /\ runs[1].res.kind = "timeout"
    /\ CACHED_PASS = runs[1].pw
    /\ CACHED_PASS \in accepted

(***************************************************************************)
(* Network host discovery                                                  *)
(***************************************************************************)
MaxDiscCalls == 2
CACHE_TTL == 60
\* time.time() at the first call, and how far the clock runs.
StartTime == 100
MaxElapsed == 60
TickSteps == {30}

\* _DISCOVERY_FUNCS
Sources == {"mDNS", "Tailscale", "known_hosts", "/etc/hosts", "getent"}

HostCandidate(name, address, source) ==
    [name |-> name, address |-> address, source |-> source]

\* What each source yields when it finds something.
Found(src) ==
    CASE src = "mDNS" -> << HostCandidate(<<"b">>, "ip2", "mDNS") >>
      [] src = "Tailscale" -> << HostCandidate(<<"b">>, "ip1", "Tailscale"),
                                 HostCandidate(<<"a">>, "ip1", "Tailscale") >>
      [] src = "known_hosts" -> << HostCandidate(<<"a">>, None, "known_hosts"),
                                   HostCandidate(<<"A">>, None, "root_known_hosts") >>
      [] src = "/etc/hosts" -> << HostCandidate(<<"A">>, "ip2", "/etc/hosts") >>
      [] src = "getent" -> << HostCandidate(<<"a">>, "ip2", "getent") >>

\* How a source worker can end: the function raises; its program is not
\* installed, times out, cannot be started or exits non-zero (_run_command
\* returns 127, 124, 1 or the exit code); it exits 0 with nothing to report;
\* or it reports candidates.
SourceOutcomes == {"raise", "notfound", "timeout", "oserror", "nonzero", "empty", "found"}

\* _run_command's exit code for an outcome of the program
run_command_rc(o) ==
    CASE o = "notfound" -> 127
      [] o = "timeout" -> 124
      [] o = "oserror" -> 1
      [] o = "nonzero" -> 2
      [] OTHER -> 0

\* The list a _discover_* function returns (it does not raise here).
discover_source(src, o) ==
    IF run_command_rc(o) # 0 \/ o = "empty" THEN <<>> ELSE Found(src)

IsFailure(o) == o \in {"raise", "notfound", "timeout", "oserror", "nonzero"}

\* future.result() or [], with the except clause of discover_hosts
FutureCandidates(src, o) == IF o = "raise" THEN <<>> ELSE discover_source(src, o)

CandKey(c) == <<Lower(c.name), c.address>>

\* The for-loop over one future's candidates: dedup on (name.lower(), address).
MergeCandidates_NoDedup(res, sn, cands) ==
    [results |-> res \o cands, seen |-> sn]

RECURSIVE MergeCandidates(_, _, _)
MergeCandidates(res, sn, cands) ==
    IF cands = <<>> THEN [results |-> res, seen |-> sn]
    ELSE LET c == Head(cands)
             key == CandKey(c)
         IN  IF key \in sn
             THEN MergeCandidates(res, sn, Tail(cands))
             ELSE MergeCandidates(Append(res, c), sn \cup {key}, Tail(cands))

\* Code points of the characters compared by the sort.
Code(c) ==
    CASE c = "/" -> 47 [] c = "A" -> 65 [] c = "T" -> 84 [] c = "a" -> 97
      [] c = "b" -> 98 [] c = "g" -> 103 [] c = "k" -> 107 [] c = "m" -> 109
      [] c = "r" -> 114

\* Python's < on str
RECURSIVE StrLess(_, _)
StrLess(a, b) ==
    IF b = <<>> THEN FALSE
    ELSE IF a = <<>> THEN TRUE
    ELSE IF Head(a) # Head(b) THEN Code(Head(a)) < Code(Head(b))
    ELSE StrLess(Tail(a), Tail(b))

\* The source tags differ in their first character, which decides their order.
SourceFirstChar(src) ==
    CASE src = "/etc/hosts" -> "/" [] src = "Tailscale" -> "T" [] src = "getent" -> "g"
      [] src = "known_hosts" -> "k" [] src = "mDNS" -> "m" [] src = "root_known_hosts" -> "r"

TailscaleFlag_Dropped(c) == 1
\* 0 if c.source.lower() == "tailscale" else 1
TailscaleFlag(c) == IF c.source = "Tailscale" THEN 0 ELSE 1

\* key(a) < key(b) for key = (flag, source, name)
KeyLess(a, b) ==
    \/ TailscaleFlag(a) < TailscaleFlag(b)
    \/ /\ TailscaleFlag(a) = TailscaleFlag(b)
       /\ \/ Code(SourceFirstChar(a.source)) < Code(SourceFirstChar(b.source))
          \/ a.source = b.source /\ StrLess(a.name, b.name)

\* list.sort is stable: x goes after every element whose key is not greater.
RECURSIVE InsertSorted(_, _)
InsertSorted(sorted, x) ==
    IF sorted = <<>> THEN <<x>>
    ELSE IF KeyLess(x, Head(sorted)) THEN <<x>> \o sorted
    ELSE <<Head(sorted)>> \o InsertSorted(Tail(sorted), x)

RECURSIVE SortResults(_)
SortResults(l) ==
    IF l = <<>> THEN <<>>
    ELSE InsertSorted(SortResults(SubSeq(l, 1, Len(l) - 1)), l[Len(l)])

\* `not force and _CACHE and (time.time() - _CACHE_TS) < _CACHE_TTL`
CacheFresh_NoTtl(force, cache, ts, t) == ~force /\ cache # <<>>
CacheFresh(force, cache, ts, t) == ~force /\ cache # <<>> /\ (t - ts) < CACHE_TTL

NoPrev == [valid |-> FALSE, start |-> 0, ret |-> <<>>]

DiscInit ==
    /\ CACHE = <<>>
    /\ CACHE_TS = 0
    /\ now = StartTime
    /\ discPc = "idle"
    /\ discForce = FALSE
    /\ pending = {}
    /\ results = <<>>
    /\ seen = {}
    /\ discRet = <<>>
    /\ failed = {}
    /\ outputs = [s \in Sources |-> <<>>]
    /\ invoked = FALSE
    /\ callStart = 0
    /\ prev = NoPrev
    /\ discCalls = 0

\* Time passes: between calls, and while a pass waits for its workers (the
\* clock is read only at the entry of a call and when the cache is stored).
Tick ==
    /\ UNCHANGED notDisc
    /\ discPc = "idle" \/ (discPc = "running" /\ pending = Sources)
    /\ \E d \in TickSteps :
        /\ now + d <= StartTime + MaxElapsed
        /\ now' = now + d
    /\ UNCHANGED <<CACHE, CACHE_TS, discPc, discForce, pending, results, seen,
                   discRet, failed, outputs, invoked, callStart, prev, discCalls>>

\* lines 179-186: entry of discover_hosts, the cache test, the submits
DiscCall ==
    /\ UNCHANGED notDisc
    /\ discPc = "idle"
    /\ discCalls < MaxDiscCalls
    /\ discCalls' = discCalls + 1
    /\ callStart' = now
    /\ \E force \in BOOLEAN :
        /\ discForce' = force
        /\ IF CacheFresh(force, CACHE, CACHE_TS, now)
           THEN /\ discRet' = CACHE
                /\ discPc' = "done"
                /\ invoked' = FALSE
                /\ pending' = {}
           ELSE /\ discRet' = <<>>
                /\ discPc' = "running"
                /\ invoked' = TRUE
                /\ pending' = Sources
    /\ results' = <<>>
    /\ seen' = {}
    /\ failed' = {}
    /\ outputs' = [s \in Sources |-> <<>>]
    /\ UNCHANGED <<CACHE, CACHE_TS, now, prev>>

\* lines 187-197: as_completed yields one future, in any order
FutureDone ==
    /\ UNCHANGED notDisc
    /\ discPc = "running"
    /\ \E src \in pending, o \in SourceOutcomes :
        LET cands == FutureCandidates(src, o)
            m == MergeCandidates(results, seen, cands)
        IN  /\ results' = m.results
            /\ seen' = m.seen
            /\ pending' = pending \ {src}
            /\ failed' = IF IsFailure(o) THEN failed \cup {src} ELSE failed
            /\ outputs' = [outputs EXCEPT ![src] = cands]
    /\ UNCHANGED <<CACHE, CACHE_TS, now, discPc, discForce, discRet, invoked,
                   callStart, prev, discCalls>>

\* lines 199-203: sort, store under the lock, return a copy
DiscStore ==
    /\ UNCHANGED notDisc
    /\ discPc = "running"
    /\ pending = {}
    /\ LET sorted == SortResults(results)
       IN  /\ results' = sorted
           /\ CACHE' = sorted
           /\ discRet' = sorted
    /\ CACHE_TS' = now
    /\ discPc' = "done"
    /\ UNCHANGED <<now, discForce, pending, seen, failed, outputs, invoked,
                   callStart, prev, discCalls>>

\* The caller takes the list; the locals of the call are gone.
DiscReturn ==
    /\ UNCHANGED notDisc
    /\ discPc = "done"
    /\ discPc' = "idle"
    /\ prev' = [valid |-> TRUE, start |-> callStart, ret |-> discRet]
    /\ results' = <<>>
    /\ seen' = {}
    /\ failed' = {}
    /\ outputs' = [s \in Sources |-> <<>>]
    /\ UNCHANGED <<CACHE, CACHE_TS, now, discForce, pending, discRet, invoked,
                   callStart, discCalls>>

DiscNext ==
    \/ Tick
    \/ DiscCall
    \/ FutureDone
    \/ DiscStore
    \/ DiscReturn


\* Two consecutive calls, the second entered less than 60 s after the first
\* and without force.
SecondCallWithinTtl ==
    /\ prev.valid
    /\ discPc # "idle"
    /\ ~discForce
    /\ callStart - prev.start < CACHE_TTL

\* C2 as stated: two calls within 60 seconds of each other, the second
\* without force, return the identical list and the second does not invoke the
\* sources, whatever the first returned; a call with force invokes them.
C2_Original ==
    /\ (SecondCallWithinTtl => ~invoked)
    /\ (SecondCallWithinTtl /\ discPc = "done" => discRet = prev.ret)
    /\ (discPc # "idle" /\ discForce => invoked)

\* The same, for a first call that returned at least one candidate.
C2_NonEmptyFirst ==
    /\ (SecondCallWithinTtl /\ prev.ret # <<>> => ~invoked)
    /\ (SecondCallWithinTtl /\ prev.ret # <<>> /\ discPc = "done" => discRet = prev.ret)
    /\ (discPc # "idle" /\ discForce => invoked)

\* The candidates reported in this pass by the sources that did not fail.
Reported == UNION { { outputs[s][i] : i \in 1..Len(outputs[s]) } : s \in Sources }

Returned == { discRet[i] : i \in 1..Len(discRet) }

\* The worker that produces candidates tagged `tag`.
SourceOfTag(tag) == IF tag = "root_known_hosts" THEN "known_hosts" ELSE tag

\* C3: a pass in which sources fail (raise, time out, exit non-zero, are not
\* installed) still returns: the list holds no candidate of a failed source,
\* holds every candidate the other sources reported (up to the dedup on
\* lower-cased name and address) and nothing else, and its Tailscale
\* candidates precede all others, whatever the completion order.
C3_FailedSourcesContributeNothing ==
    discPc = "done" /\ invoked =>
        /\ \A c \in Returned : SourceOfTag(c.source) \notin failed
        /\ Returned \subseteq Reported
        /\ { CandKey(c) : c \in Returned } = { CandKey(c) : c \in Reported }
        /\ \A i, j \in 1..Len(discRet) :
              i < j /\ discRet[j].source = "Tailscale" => discRet[i].source = "Tailscale"

\* mDNS failed, Tailscale reported two peers and /etc/hosts one entry, and
\* the pass returned the two Tailscale candidates ahead of the third.
C3_Witness ==
    /\ discPc = "done"
    /\ invoked
    /\ "mDNS" \in failed
    /\ outputs["/etc/hosts"] # <<>>
    /\ Len(discRet) = 3
    /\ discRet[1].source = "Tailscale"
    /\ discRet[2].source = "Tailscale"
    /\ discRet[3].source = "/etc/hosts"


\* The list a pass returns when its workers complete in the order `order`.
RECURSIVE MergeInOrder(_, _, _)
MergeInOrder(order, res, sn) ==
    IF order = <<>> THEN res
    ELSE LET m == MergeCandidates(res, sn, outputs[Head(order)])
         IN  MergeInOrder(Tail(order), m.results, m.seen)

SubmitOrder == <<"mDNS", "Tailscale", "known_hosts", "/etc/hosts", "getent">>

ListForOrder(order) == SortResults(MergeInOrder(order, <<>>, {}))

\* C28 as stated: the returned list is determined by what the sources
\* returned and not by the order in which the workers complete: it is the
\* list of a pass fed the same outputs whose workers complete in the order
\* they were submitted, source tags included.
C28_Original ==
    discPc = "done" /\ invoked => discRet = ListForOrder(SubmitOrder)

\* Two sources of this pass reported the same (lower-cased name, address).
SharedKey ==
    \E s, t \in Sources : s # t /\
        \E i \in 1..Len(outputs[s]), j \in 1..Len(outputs[t]) :
            CandKey(outputs[s][i]) = CandKey(outputs[t][j])

\* What holds instead: the list is the same for every completion order when
\* no key is reported by two sources, and the set of keys always is.
OrderIndependentWithoutSharedKey ==
    discPc = "done" /\ invoked =>
        /\ (~SharedKey => discRet = ListForOrder(SubmitOrder))
        /\ { CandKey(discRet[i]) : i \in 1..Len(discRet) }
             = { CandKey(ListForOrder(SubmitOrder)[i]) :
                   i \in 1..Len(ListForOrder(SubmitOrder)) }

\* No two candidates of a list share (lower-cased name, address).
NoDuplicateKeys(l) ==
    \A i, j \in 1..Len(l) : i # j => CandKey(l[i]) # CandKey(l[j])

\* The list is in the order of the key (Tailscale first, source, name).
InKeyOrder(l) == \A i, j \in 1..Len(l) : i < j => ~KeyLess(l[j], l[i])

\* C25: every list discover_hosts returns, and the cache at every moment,
\* holds no two candidates with the same (lower-cased name, address) and is
\* ordered by (Tailscale first, source name, candidate name).
C25_DedupSorted ==
    /\ NoDuplicateKeys(CACHE) /\ InKeyOrder(CACHE)
    /\ (discPc = "done" => NoDuplicateKeys(discRet) /\ InKeyOrder(discRet))
    /\ (prev.valid => NoDuplicateKeys(prev.ret) /\ InKeyOrder(prev.ret))

\* A pass in which known_hosts reported `a` and `A` without address, and
\* /etc/hosts and getent the same name and address in different case: one
\* of each pair is kept, and the Tailscale peers come first, `a` before `b`.
C25_Witness ==
    /\ discPc = "done"
    /\ invoked
    /\ Len(outputs["known_hosts"]) = 2
    /\ outputs["/etc/hosts"] # <<>>
    /\ outputs["getent"] # <<>>
    /\ outputs["Tailscale"] # <<>>
    /\ Len(discRet) = 4
    /\ discRet[1].name = <<"a">> /\ discRet[2].name = <<"b">>
    /\ CACHE = discRet

(***************************************************************************)
(* More text helpers                                                       *)
(***************************************************************************)
\* str.find(c) + 1 for a one-symbol c (0: absent)
IndexOf(s, c) ==
    IF \E i \in 1..Len(s) : s[i] = c
    THEN CHOOSE i \in 1..Len(s) : s[i] = c /\ \A j \in 1..(i - 1) : s[j] # c
    ELSE 0

\* str.rfind(c) + 1
LastIndexOf(s, c) ==
    IF \E i \in 1..Len(s) : s[i] = c
    THEN CHOOSE i \in 1..Len(s) : s[i] = c /\ \A j \in (i + 1)..Len(s) : s[j] # c
    ELSE 0

\* s.split(c, 1): one or two parts
Split1(s, c) ==
    LET i == IndexOf(s, c)
    IN  IF i = 0 THEN <<s>> ELSE <<SubSeq(s, 1, i - 1), SubSeq(s, i + 1, Len(s))>>

\* s.rsplit(c, 1)
RSplit1(s, c) ==
    LET i == LastIndexOf(s, c)
    IN  IF i = 0 THEN <<s>> ELSE <<SubSeq(s, 1, i - 1), SubSeq(s, i + 1, Len(s))>>

\* s.split(c)
RECURSIVE Split(_, _)
Split(s, c) ==
    LET i == IndexOf(s, c)
    IN  IF i = 0 THEN <<s>>
        ELSE <<SubSeq(s, 1, i - 1)>> \o Split(SubSeq(s, i + 1, Len(s)), c)

\* sep.join(parts)
RECURSIVE Join(_, _)
Join(parts, sep) ==
    IF parts = <<>> THEN <<>>
    ELSE IF Len(parts) = 1 THEN parts[1]
    ELSE parts[1] \o sep \o Join(Tail(parts), sep)

DigitChars == <<"0", "1", "2", "3", "4", "5", "6", "7", "8", "9">>
IsDigit(c) == \E d \in 1..10 : DigitChars[d] = c
DigitValue(c) == (CHOOSE d \in 1..10 : DigitChars[d] = c) - 1

\* str(n) for n >= 0
RECURSIVE IntToStr(_)
IntToStr(n) ==
    IF n < 10 THEN <<DigitChars[n + 1]>>
    ELSE IntToStr(n \div 10) \o <<DigitChars[(n % 10) + 1]>>

\* int(s) succeeds
IsInt(s) == s # <<>> /\ \A i \in 1..Len(s) : IsDigit(s[i])

\* int(s)
RECURSIVE StrToInt(_)
StrToInt(s) ==
    IF s = <<>> THEN 0
    ELSE 10 * StrToInt(SubSeq(s, 1, Len(s) - 1)) + DigitValue(s[Len(s)])

(***************************************************************************)
(* Entry validator                                                         *)
(***************************************************************************)
validate_entry_HostFirst(entry) ==
    LET mp == Strip(entry.mount_point)
        host == Strip(entry.host)
        rpath == Strip(entry.remote_path)
    IN  IF host = <<>> THEN "host_required"
        ELSE IF mp = <<>> THEN "mount_point_required"
        ELSE IF rpath = <<>> THEN "remote_path_required"
        ELSE IF ~StartsWith(mp, <<"/">>) THEN "mount_point_absolute"
        ELSE IF \E i \in 1..Len(host) : host[i] \in WhiteSpace THEN "host_whitespace"
        ELSE IF ~StartsWith(rpath, <<"/">>) THEN "remote_path_absolute"
        ELSE "ok"

\* validate_entry: "ok", or the rule whose ValueError it raises
validate_entry(entry) ==
    LET mp == Strip(entry.mount_point)
        host == Strip(entry.host)
        rpath == Strip(entry.remote_path)
    IN  IF mp = <<>> THEN "mount_point_required"
        ELSE IF host = <<>> THEN "host_required"
        ELSE IF rpath = <<>> THEN "remote_path_required"
        ELSE IF ~StartsWith(mp, <<"/">>) THEN "mount_point_absolute"
        ELSE IF \E i \in 1..Len(host) : host[i] \in WhiteSpace THEN "host_whitespace"
        ELSE IF ~StartsWith(rpath, <<"/">>) THEN "remote_path_absolute"
        ELSE "ok"

(***************************************************************************)
(* Config file builder                                                     *)
(***************************************************************************)
FuseSshfs == <<"fuse.sshfs">>
RootPrefix == <<"/", "r", "o", "o", "t", "/">>
RootKnownHosts == RootPrefix \o <<".ssh", "/", "known_hosts">>
Escape040 == <<"\\", "0", "4", "0">>

\* escape_spaces
escape_spaces(path) == Replace(path, <<" ">>, Escape040)

\* os.path.dirname
DirName(path) ==
    LET i == LastIndexOf(path, "/")
        head == SubSeq(path, 1, i)
    IN  IF head # <<>> /\ \E j \in 1..Len(head) : head[j] # "/"
        THEN SubSeq(head, 1, CHOOSE k \in 1..Len(head) :
                                 head[k] # "/" /\ \A j \in (k + 1)..Len(head) : head[j] = "/")
        ELSE head

\* os.path.join(a, b) for a relative b
PathJoin(a, b) ==
    IF a = <<>> THEN b
    ELSE IF a[Len(a)] = "/" THEN a \o b
    ELSE a \o <<"/">> \o b

\* The stripped, non-empty tokens of a comma-separated option text.
RECURSIVE NonEmptyStripped(_)
NonEmptyStripped(toks) ==
    IF toks = <<>> THEN <<>>
    ELSE IF Strip(Head(toks)) = <<>> THEN NonEmptyStripped(Tail(toks))
    ELSE <<Strip(Head(toks))>> \o NonEmptyStripped(Tail(toks))

BuildError == [ok |-> FALSE, text |-> <<"ValueError">>]
Built(text) == [ok |-> TRUE, text |-> text]

MissingFields_HostOptional(entry) ==
    Strip(entry.mount_point) = <<>> \/ Strip(entry.remote_path) = <<>>

\* "if not mount_point or not host or not remote_path", on the trimmed values
MissingFields(entry) ==
    \/ Strip(entry.mount_point) = <<>>
    \/ Strip(entry.host) = <<>>
    \/ Strip(entry.remote_path) = <<>>

\* The line build_map_line returns when it does not raise;
\* kh: a known_hosts file exists beside the identity file.
MapLineText(entry, kh) ==
    LET mount_point == Strip(entry.mount_point)
        user == Strip(entry.user)
        host == Strip(entry.host)
        remote_path == Strip(entry.remote_path)
        fstype == IF entry.fstype = <<>> \/ Strip(entry.fstype) = <<>>
                  THEN FuseSshfs ELSE Strip(entry.fstype)
        identity_file == Strip(entry.identity_file)
        uid == Strip(entry.uid)
        gid == Strip(entry.gid)
        umask == Strip(entry.umask)
        sai == Strip(IntToStr(entry.server_alive_interval))
        sac == Strip(IntToStr(entry.server_alive_count))
        extra == Strip(entry.extra_options)
        known_hosts ==
            IF StartsWith(identity_file, RootPrefix) THEN RootKnownHosts
            ELSE IF kh THEN PathJoin(DirName(identity_file), <<"known_hosts">>)
            ELSE <<>>
        opts ==
            << <<"-fstype", "=">> \o fstype >>
            \o (IF identity_file # <<>>
                THEN << <<"IdentityFile", "=">> \o identity_file >>
                     \o (IF known_hosts # <<>>
                         THEN << <<"UserKnownHostsFile", "=">> \o known_hosts >>
                         ELSE <<>>)
                     \o << <<"StrictHostKeyChecking", "=", "accept-new">> >>
                ELSE <<>>)
            \o (IF entry.allow_other THEN << <<"allow_other">> >> ELSE <<>>)
            \o (IF uid # <<>> THEN << <<"uid", "=">> \o uid >> ELSE <<>>)
            \o (IF gid # <<>> THEN << <<"gid", "=">> \o gid >> ELSE <<>>)
            \o (IF umask # <<>> THEN << <<"umask", "=">> \o umask >> ELSE <<>>)
            \o (IF sai # <<>> THEN << <<"ServerAliveInterval", "=">> \o sai >> ELSE <<>>)
            \o (IF sac # <<>> THEN << <<"ServerAliveCountMax", "=">> \o sac >> ELSE <<>>)
            \o (IF entry.reconnect THEN << <<"reconnect">> >> ELSE <<>>)
            \o (IF entry.delay_connect THEN << <<"delay_connect">> >> ELSE <<>>)
            \o (IF extra # <<>> THEN NonEmptyStripped(Split(extra, ",")) ELSE <<>>)
        remote_spec ==
            <<":">> \o (IF user # <<>> THEN user \o <<"@">> ELSE <<>>)
                    \o host \o <<":">> \o escape_spaces(remote_path)
    IN  mount_point \o <<" ">> \o Join(opts, <<",">>) \o <<" ">> \o remote_spec

\* build_map_line
build_map_line(entry, kh) ==
    IF MissingFields(entry) THEN BuildError ELSE Built(MapLineText(entry, kh))

MapFileHeader == <<"#", " Managed by Autofs Manager GUI (SSHFS)", "\n",
                   "#", " Each line maps a local path to a remote SSHFS target with options.", "\n",
                   "#", " Format:", "\n",
                   "#", " /local/mount -fstype=fuse.sshfs,... :user@host:/remote/path", "\n",
                   "\n">>

\* build_map_file: the list comprehension raises at the first entry that fails
build_map_file(es, kh) ==
    LET lines == [i \in 1..Len(es) |-> build_map_line(es[i], kh)]
    IN  IF \E i \in 1..Len(es) : ~lines[i].ok
        THEN BuildError
        ELSE Built(MapFileHeader
                   \o Join([i \in 1..Len(es) |-> lines[i].text], <<"\n">>)
                   \o (IF es # <<>> THEN <<"\n">> ELSE <<>>))

(***************************************************************************)
(* Map file parser                                                         *)
(***************************************************************************)
\* str.splitlines, for "\n" line ends
SplitLines(txt) ==
    LET parts == Split(txt, "\n")
    IN  IF parts[Len(parts)] = <<>> THEN SubSeq(parts, 1, Len(parts) - 1) ELSE parts

\* The value of the last option "key=value" of opts with that key, "" if none.
RECURSIVE OptValue(_, _)
OptValue(opts, key) ==
    IF opts = <<>> THEN <<>>
    ELSE LET o == opts[Len(opts)]
         IN  IF IndexOf(o, "=") # 0 /\ Split1(o, "=")[1] = <<key>>
             THEN Split1(o, "=")[2]
             ELSE OptValue(SubSeq(opts, 1, Len(opts) - 1), key)

KnownKeys == {<<"IdentityFile">>, <<"uid">>, <<"gid">>, <<"umask">>,
              <<"ServerAliveInterval">>, <<"ServerAliveCountMax">>}
KnownFlags == {<<"allow_other">>, <<"reconnect">>, <<"delay_connect">>}

\* The options the loop appends to extra_opts, in order.
RECURSIVE ExtraOpts(_)
ExtraOpts(opts) ==
    IF opts = <<>> THEN <<>>
    ELSE LET o == Head(opts)
             known == IF IndexOf(o, "=") # 0 THEN Split1(o, "=")[1] \in KnownKeys
                      ELSE o \in KnownFlags
         IN  (IF known THEN <<>> ELSE <<o>>) \o ExtraOpts(Tail(opts))

Skipped == [ok |-> FALSE]

\* The body of the loop of parse_map_text for one stripped, non-comment line:
\* the entry appended, or Skipped ("continue", also on any exception).
parse_map_line(line) ==
    IF IndexOf(line, " ") = 0 THEN Skipped
    ELSE
    LET left == Split1(line, " ")[1]
        rest == Split1(line, " ")[2]
    IN  IF IndexOf(rest, " ") = 0 THEN Skipped
        ELSE
        LET opts_part == RSplit1(rest, " ")[1]
            remote_part == RSplit1(rest, " ")[2]
        IN  IF ~StartsWith(opts_part, <<"-fstype", "=">>) THEN Skipped
            ELSE
            LET opt_items == Split(opts_part, ",")
                fstype == Split1(opt_items[1], "=")[2]
                opts == Tail(opt_items)
                sai == OptValue(opts, "ServerAliveInterval")
                sac == OptValue(opts, "ServerAliveCountMax")
                rp == IF StartsWith(remote_part, <<":">>) THEN Tail(remote_part)
                      ELSE remote_part
                hasUser == IndexOf(Split1(rp, ":")[1], "@") # 0
                user == IF hasUser THEN Split1(rp, "@")[1] ELSE <<>>
                resth == IF hasUser THEN Split1(rp, "@")[2] ELSE rp
            IN  IF \/ IndexOf(resth, ":") = 0
                   \/ (sai # <<>> /\ ~IsInt(sai))
                   \/ (sac # <<>> /\ ~IsInt(sac))
                THEN Skipped
                ELSE [ok |-> TRUE,
                      entry |->
                        [mount_point |-> left,
                         user |-> user,
                         host |-> Split1(resth, ":")[1],
                         remote_path |-> Replace(Split1(resth, ":")[2], Escape040, <<" ">>),
                         fstype |-> fstype,
                         identity_file |-> OptValue(opts, "IdentityFile"),
                         allow_other |-> \E i \in 1..Len(opts) : opts[i] = <<"allow_other">>,
                         uid |-> OptValue(opts, "uid"),
                         gid |-> OptValue(opts, "gid"),
                         umask |-> OptValue(opts, "umask"),
                         server_alive_interval |-> IF sai # <<>> THEN StrToInt(sai) ELSE 15,
                         server_alive_count |-> IF sac # <<>> THEN StrToInt(sac) ELSE 3,
                         reconnect |-> \E i \in 1..Len(opts) : opts[i] = <<"reconnect">>,
                         delay_connect |-> \E i \in 1..Len(opts) : opts[i] = <<"delay_connect">>,
                         extra_options |-> Join(ExtraOpts(opts), <<",">>)]]

RECURSIVE ParseLines(_)
ParseLines(lines) ==
    IF lines = <<>> THEN <<>>
    ELSE LET line == Strip(Head(lines))
             r == IF line = <<>> \/ StartsWith(line, <<"#">>) THEN Skipped
                  ELSE parse_map_line(line)
         IN  (IF r.ok THEN <<r.entry>> ELSE <<>>) \o ParseLines(Tail(lines))

\* parse_map_text
parse_map_text(map_txt) ==
    IF map_txt = <<>> THEN <<>> ELSE ParseLines(SplitLines(map_txt))

(***************************************************************************)
(* Validator, builder and parser applied to entries                        *)
(***************************************************************************)
MountPoints == {<<>>, <<" ">>, <<"/", "m">>, <<"m">>, <<"/", "m", " ", "d">>, <<" ", "/", "m">>}
Hosts == {<<>>, <<" ">>, <<"h">>, <<"h", " ", "x">>}
RemotePaths == {<<>>, <<"/", "r">>, <<"r">>, <<"/", "r", " ", "s">>,
                <<"/", "r", "\\", "0", "4", "0", "s">>}

\* The optional fields of an entry; the first is SshfsEntry's defaults.
OptionProfiles ==
    { [user |-> <<>>, fstype |-> FuseSshfs, identity_file |-> <<>>,
       allow_other |-> TRUE, uid |-> <<"1", "0", "0", "0">>,
       gid |-> <<"1", "0", "0", "0">>, umask |-> <<"0", "2", "2">>,
       server_alive_interval |-> 15, server_alive_count |-> 3,
       reconnect |-> TRUE, delay_connect |-> TRUE, extra_options |-> <<>>],
      [user |-> <<"u">>, fstype |-> FuseSshfs, identity_file |-> <<>>,
       allow_other |-> FALSE, uid |-> <<>>, gid |-> <<>>, umask |-> <<>>,
       server_alive_interval |-> 0, server_alive_count |-> 10,
       reconnect |-> FALSE, delay_connect |-> FALSE,
       extra_options |-> <<"x", "=", "1", ",", "y">>],
      [user |-> <<"u">>, fstype |-> <<>>, identity_file |-> RootPrefix \o <<"k">>,
       allow_other |-> TRUE, uid |-> <<"1", "0", "0", "0">>,
       gid |-> <<"1", "0", "0", "0">>, umask |-> <<"0", "2", "2">>,
       server_alive_interval |-> 15, server_alive_count |-> 3,
       reconnect |-> TRUE, delay_connect |-> TRUE,
       extra_options |-> <<" ", "x", "=", "1", " ", ",", " ", ",", "y">>],
      [user |-> <<>>, fstype |-> FuseSshfs, identity_file |-> <<"/", "d", "/", "k">>,
       allow_other |-> TRUE, uid |-> <<"1", "0", "0", "0">>,
       gid |-> <<"1", "0", "0", "0">>, umask |-> <<"0", "2", "2">>,
       server_alive_interval |-> 15, server_alive_count |-> 3,
       reconnect |-> TRUE, delay_connect |-> TRUE, extra_options |-> <<>>] }

\* SshfsEntry(mount_point, host, remote_path, **profile).to_dict()
SshfsEntry(mp, host, rp, o) ==
    [mount_point |-> mp, host |-> host, remote_path |-> rp,
     user |-> o.user, fstype |-> o.fstype, identity_file |-> o.identity_file,
     allow_other |-> o.allow_other, uid |-> o.uid, gid |-> o.gid, umask |-> o.umask,
     server_alive_interval |-> o.server_alive_interval,
     server_alive_count |-> o.server_alive_count,
     reconnect |-> o.reconnect, delay_connect |-> o.delay_connect,
     extra_options |-> o.extra_options]

EntryPool ==
    { SshfsEntry(mp, h, rp, o) :
        mp \in MountPoints, h \in Hosts, rp \in RemotePaths, o \in OptionProfiles }

GoodEntry ==
    SshfsEntry(<<"/", "g">>, <<"g">>, <<"/", "g">>,
               CHOOSE o \in OptionProfiles : o.user = <<>> /\ o.identity_file = <<>>)

\* The entry lists build_map_file is applied to.
EntryLists(e) == {<<>>, <<e>>, <<e, GoodEntry>>, <<GoodEntry, e>>}

NoBuild == [ok |-> FALSE, text |-> <<>>]

MapInit ==
    /\ mapPc = "input"
    /\ ent \in EntryPool
    /\ entries \in EntryLists(ent)
    /\ khExists \in BOOLEAN
    /\ verdict = "none"
    /\ lineRes = NoBuild
    /\ parsed = <<>>
    /\ fileRes = NoBuild

\* The functions at rest, while another component runs.
MapIdle ==
    /\ mapPc = "input"
    /\ ent = GoodEntry
    /\ entries = <<GoodEntry>>
    /\ khExists = FALSE
    /\ verdict = "none"
    /\ lineRes = NoBuild
    /\ parsed = <<>>
    /\ fileRes = NoBuild

MapValidate ==
    /\ UNCHANGED notMap
    /\ mapPc = "input"
    /\ verdict' = validate_entry(ent)
    /\ mapPc' = "validated"
    /\ UNCHANGED <<ent, entries, khExists, lineRes, parsed, fileRes>>

MapBuildLine ==
    /\ UNCHANGED notMap
    /\ mapPc = "validated"
    /\ lineRes' = build_map_line(ent, khExists)
    /\ mapPc' = "built"
    /\ UNCHANGED <<ent, entries, khExists, verdict, parsed, fileRes>>

\* parse_map_text on the single-line text just built
MapParse ==
    /\ UNCHANGED notMap
    /\ mapPc = "built"
    /\ lineRes.ok
    /\ parsed' = parse_map_text(lineRes.text)
    /\ mapPc' = "parsed"
    /\ UNCHANGED <<ent, entries, khExists, verdict, lineRes, fileRes>>

MapBuildFile ==
    /\ UNCHANGED notMap
    /\ mapPc = "parsed" \/ (mapPc = "built" /\ ~lineRes.ok)
    /\ fileRes' = build_map_file(entries, khExists)
    /\ mapPc' = "done"
    /\ UNCHANGED <<ent, entries, khExists, verdict, lineRes, parsed>>

MapNext == MapValidate \/ MapBuildLine \/ MapParse \/ MapBuildFile

(***************************************************************************)
(* Claims about the validator, the builder and the parser                  *)
(***************************************************************************)
Blank(s) == \A i \in 1..Len(s) : s[i] \in WhiteSpace

\* The value with its surrounding whitespace removed starts with "/".
Absolute(s) ==
    \E i \in 1..Len(s) : s[i] = "/" /\ \A j \in 1..(i - 1) : s[j] \in WhiteSpace

\* Whitespace strictly inside the value.
InnerSpace(s) ==
    \E i, j, k \in 1..Len(s) :
        i < j /\ j < k /\ s[i] \notin WhiteSpace /\ s[j] \in WhiteSpace /\ s[k] \notin WhiteSpace

RuleNames == <<"mount_point_required", "host_required", "remote_path_required",
               "mount_point_absolute", "host_whitespace", "remote_path_absolute">>

Violates(e) == <<Blank(e.mount_point), Blank(e.host), Blank(e.remote_path),
                 ~Absolute(e.mount_point), InnerSpace(e.host), ~Absolute(e.remote_path)>>

TokenSet(text) ==
    LET toks == NonEmptyStripped(Split(text, ","))
    IN  {toks[i] : i \in 1..Len(toks)}

RoundTrips ==
    /\ Len(parsed) = 1
    /\ \A f \in {"mount_point", "host", "remote_path", "user", "fstype",
                 "identity_file", "allow_other", "uid", "gid", "umask",
                 "server_alive_interval", "server_alive_count",
                 "reconnect", "delay_connect"} : parsed[1][f] = ent[f]
    /\ TokenSet(parsed[1].extra_options) = TokenSet(ent.extra_options)

\* C5: every entry validate_entry accepts comes back from build_map_line
\* followed by parse_map_text as exactly one entry with the same fourteen
\* fields and the same set of extra_options tokens.
C5_Original ==
    mapPc \in {"parsed", "done"} /\ verdict = "ok" => RoundTrips

\* C9: validate_entry reports the earliest violated rule of the fixed order,
\* and accepts exactly the entries that violate none.
C9_FirstFailingRule ==
    mapPc # "input" =>
        /\ verdict = "ok" <=> \A k \in 1..6 : ~Violates(ent)[k]
        /\ \A k \in 1..6 :
               verdict = RuleNames[k] <=>
                   /\ Violates(ent)[k]
                   /\ \A j \in 1..(k - 1) : ~Violates(ent)[j]

C9_Witness ==
    /\ mapPc # "input"
    /\ verdict = "host_required"
    /\ Violates(ent)[2] /\ Violates(ent)[3] /\ Violates(ent)[4]

\* C10: build_map_line raises its ValueError exactly when mount_point, host
\* or remote_path is blank after trimming, and build_map_file raises when
\* any entry of its list does.
C10_RequiredFields ==
    /\ mapPc \in {"built", "parsed", "done"} =>
           /\ lineRes = BuildError <=>
                  Blank(ent.mount_point) \/ Blank(ent.host) \/ Blank(ent.remote_path)
           /\ lineRes # BuildError => lineRes.ok
    /\ mapPc = "done" =>
           /\ (\E i \in 1..Len(entries) :
                   \/ Blank(entries[i].mount_point)
                   \/ Blank(entries[i].host)
                   \/ Blank(entries[i].remote_path)) => fileRes = BuildError
           /\ fileRes # BuildError => fileRes.ok

C10_Witness ==
    /\ mapPc = "done"
    /\ Len(entries) = 2 /\ entries[1] = GoodEntry
    /\ Blank(ent.host) /\ ~Blank(ent.mount_point) /\ ~Blank(ent.remote_path)
    /\ lineRes = BuildError
    /\ fileRes = BuildError

\* The remote target of the line built: what follows its last space.
RemoteTarget == RSplit1(lineRes.text, " ")[2]

EndsWith(s, suffix) ==
    Len(suffix) <= Len(s) /\ SubSeq(s, Len(s) - Len(suffix) + 1, Len(s)) = suffix

\* C11: whatever the remote path, the line built shows each of its spaces
\* as the four characters \040, the remote target holds no space, and
\* parsing the line gives the remote path back with its spaces.
C11_Original ==
    mapPc \in {"parsed", "done"} /\ lineRes.ok
      /\ ent.mount_point = <<"/", "m">> /\ ent.host = <<"h">> =>
        /\ IndexOf(RemoteTarget, " ") = 0
        /\ EndsWith(RemoteTarget, Replace(ent.remote_path, <<" ">>, Escape040))
        /\ Len(parsed) = 1
        /\ parsed[1].remote_path = ent.remote_path

\* The same for the remote paths in which the four characters \040 do not
\* already stand.
SpaceEscapingWithoutLiteralEscape ==
    mapPc \in {"parsed", "done"} /\ lineRes.ok
      /\ ent.mount_point = <<"/", "m">> /\ ent.host = <<"h">>
      /\ ~Contains(ent.remote_path, Escape040) =>
        /\ IndexOf(RemoteTarget, " ") = 0
        /\ EndsWith(RemoteTarget, Replace(ent.remote_path, <<" ">>, Escape040))
        /\ Len(parsed) = 1
        /\ parsed[1].remote_path = ent.remote_path

(***************************************************************************)
(* UseCases.enable_user_allow_other                                        *)
(***************************************************************************)
MaxFuseLen == 4
MaxFuseCalls == 2

UserAllowOther == <<"user_allow_other">>
FuseAlphabet == {"#", "user_allow_other", "\n", " ", "x"}
FuseContents == UNION {[1..n -> FuseAlphabet] : n \in 0..MaxFuseLen}

\* Exit codes of the privileged copy: done, refused, timed out.
SudoCopyCodes == {0, 1, 124}

\* files.read(path) or ""
ReadOrEmpty(exists, readable, content) ==
    IF exists /\ readable THEN content ELSE <<>>

\* The text enable_user_allow_other writes for the text it read.
NewFuseText(txt) ==
    IF txt # <<>> /\ Contains(txt, UserAllowOther)
    THEN Replace(txt, <<"#">> \o UserAllowOther, UserAllowOther)
    ELSE (IF txt # <<>> THEN txt \o <<"\n">> ELSE <<>>) \o UserAllowOther \o <<"\n">>

FuseInit ==
    /\ fuseExists \in BOOLEAN
    /\ fuseFile \in FuseContents
    /\ (~fuseExists => fuseFile = <<>>)
    /\ fuseReadable \in BOOLEAN
    /\ (~fuseExists => fuseReadable)
    /\ fuseTmp = <<>>
    /\ fusePc = "idle"
    /\ fuseNew = <<>>
    /\ fuseCalls = 0
    /\ fuseRaised = 0
    /\ fuseHistory = <<>>

FuseIdle ==
    /\ fuseExists = FALSE
    /\ fuseFile = <<>>
    /\ fuseReadable = TRUE
    /\ fuseTmp = <<>>
    /\ fusePc = "idle"
    /\ fuseNew = <<>>
    /\ fuseCalls = 0
    /\ fuseRaised = 0
    /\ fuseHistory = <<>>

\* The call ends (returns or raises) with the file as given.
FuseEnd(exists, content, raised) ==
    /\ fuseExists' = exists
    /\ fuseFile' = content
    /\ fusePc' = "idle"
    /\ fuseCalls' = fuseCalls + 1
    /\ fuseRaised' = fuseRaised + (IF raised THEN 1 ELSE 0)
    /\ fuseHistory' = Append(fuseHistory, content)

\* read the file and compute the new text
FuseCall ==
    /\ UNCHANGED notFuse
    /\ fusePc = "idle"
    /\ fuseCalls < MaxFuseCalls
    /\ fuseNew' = NewFuseText(ReadOrEmpty(fuseExists, fuseReadable, fuseFile))
    /\ fusePc' = "write"
    /\ UNCHANGED <<fuseExists, fuseFile, fuseReadable, fuseTmp, fuseCalls,
                   fuseRaised, fuseHistory>>

\* files.write_atomic(fuse_conf_path, new) succeeds; return
FuseWriteDirect ==
    /\ UNCHANGED notFuse
    /\ fusePc = "write"
    /\ FuseEnd(TRUE, fuseNew, FALSE)
    /\ UNCHANGED <<fuseReadable, fuseTmp, fuseNew>>

\* it raises: write the temporary copy
FuseWriteTmp ==
    /\ UNCHANGED notFuse
    /\ fusePc = "write"
    /\ fuseTmp' = fuseNew
    /\ fusePc' = "sudo"
    /\ UNCHANGED <<fuseExists, fuseFile, fuseReadable, fuseNew, fuseCalls,
                   fuseRaised, fuseHistory>>

\* run_sudo("cp <tmp> <fuse_conf_path>"); PermissionError unless rc = 0
FuseSudoCopy ==
    /\ UNCHANGED notFuse
    /\ fusePc = "sudo"
    /\ \E rc \in SudoCopyCodes :
           IF rc = 0
           THEN FuseEnd(TRUE, fuseTmp, FALSE)
           ELSE FuseEnd(fuseExists, fuseFile, TRUE)
    /\ UNCHANGED <<fuseReadable, fuseTmp, fuseNew>>

FuseNext == FuseCall \/ FuseWriteDirect \/ FuseWriteTmp \/ FuseSudoCopy

(***************************************************************************)
(* Claims about enable_user_allow_other                                    *)
(***************************************************************************)
\* Number of lines of the text that are an active user_allow_other line.
ActiveLines(content) ==
    LET lines == SplitLines(content)
    IN  Cardinality({i \in 1..Len(lines) : Strip(lines[i]) = UserAllowOther})

TwoCallsReturned ==
    fusePc = "idle" /\ fuseCalls = 2 /\ fuseRaised = 0

\* C6: whatever the file held at first, after two calls in succession it
\* holds exactly one active user_allow_other line and the second call left
\* what the first wrote unchanged.
C6_Original ==
    TwoCallsReturned =>
        /\ fuseExists
        /\ ActiveLines(fuseFile) = 1
        /\ fuseHistory[2] = fuseHistory[1]

\* The same for a file that was absent, empty, without the word, or with the
\* word only once, as a whole line that is active or commented with one "#".
SingleOccurrence(content) ==
    LET lines == SplitLines(content)
        hits == {i \in 1..Len(lines) : Contains(lines[i], UserAllowOther)}
    IN  /\ Cardinality(hits) <= 1
        /\ \A i \in hits : lines[i] \in {UserAllowOther, <<"#">> \o UserAllowOther}

FuseSingleOccurrenceIdempotent ==
    [](fuseCalls = 0 /\ fuseReadable /\ SingleOccurrence(fuseFile)
          => [](TwoCallsReturned =>
                   ActiveLines(fuseFile) = 1 /\ fuseHistory[2] = fuseHistory[1]))

(***************************************************************************)
(* Command line: build                                                     *)
(***************************************************************************)
MASTER_D_PATH == <<"/etc/auto.master.d/sshfs-manager.autofs">>
MAP_FILE_PATH == <<"/etc/auto.sshfs-manager">>

\* build_master_file
build_master_file_AlwaysGhost(map_file_path, timeout, ghost) ==
    <<"#", " Managed by Autofs Manager GUI (SSHFS)", "\n">>
        \o <<"/-", " ">> \o map_file_path
        \o <<" ", "--timeout", "=">> \o IntToStr(timeout) \o <<" ", "--ghost", "\n">>

build_master_file(map_file_path, timeout, ghost) ==
    LET opts == << <<"--timeout", "=">> \o IntToStr(timeout) >>
                \o (IF ghost THEN << <<"--ghost">> >> ELSE <<>>)
        body == <<"/-", " ">> \o map_file_path \o <<" ">> \o Join(opts, <<" ">>) \o <<"\n">>
        header == <<"#", " Managed by Autofs Manager GUI (SSHFS)", "\n",
                    "#", " This file is auto-generated. Edit via the GUI or your changes may be overwritten.", "\n">>
    IN  header \o body

\* UseCases.build_files: both bodies, or the ValueError of build_map_file
build_files(es, timeout, ghost) ==
    LET map_body == build_map_file(es, FALSE)
    IN  IF map_body.ok
        THEN [ok |-> TRUE,
              master |-> build_master_file(MAP_FILE_PATH, timeout, ghost),
              map |-> map_body.text]
        ELSE [ok |-> FALSE, master |-> <<>>, map |-> <<>>]

NoBodies == [ok |-> FALSE, master |-> <<>>, map |-> <<>>]
NoFiles == [master |-> <<>>, map |-> <<>>]

CliTimeouts == {120, 0}
BadEntry == [GoodEntry EXCEPT !.host = <<" ">>]
CliEntryLists == {<<>>, <<GoodEntry>>, <<GoodEntry, BadEntry>>}

\* Exit codes of use.service("restart"): done, failed, timed out.
ServiceCodes == {0, 1, 124}

\* Exit code of the interpreter for an uncaught exception.
UncaughtExit == 1

\* What the combined "cp a b && cp c d" leaves behind with each exit code:
\* how many of the two copies were made.
SudoCopyOutcomes ==
    {[rc |-> 0, copied |-> 2], [rc |-> 1, copied |-> 0], [rc |-> 1, copied |-> 1],
     [rc |-> 124, copied |-> 0], [rc |-> 124, copied |-> 1]}

TMP_MASTER == <<"/tmp/sshfs-manager.autofs">>
TMP_MAP == <<"/tmp/auto.sshfs-manager">>

\* Subcommands: build with its entry source, service with its action,
\* ssh-check with its --host, ls and umount with their --path.
CliCommands ==
    {[cmd |-> "build", arg |-> src] : src \in {"from_state", "entries_json", "system"}}
    \cup {[cmd |-> "service", arg |-> a] :
             a \in {"status", "start", "stop", "restart", "enable", "disable"}}
    \cup {[cmd |-> "ssh-check", arg |-> h] : h \in {"h", " "}}
    \cup {[cmd |-> c, arg |-> "/mnt"] : c \in {"ls", "umount"}}

\* Arguments of a subcommand other than build.
PlainArgs == [write |-> FALSE, restart |-> FALSE, timeout |-> 120, ghost |-> TRUE]

\* Exit codes an operation hands back: success, failure, timeout, and
\* codes of the command run.
ExitCodes == {0, 1, 2, 124, 255}

\* The message of write_config on success.
SavedMessage ==
    <<"Configuración guardada en sistema.", "\n", "\n">>
    \o MASTER_D_PATH \o <<"\n">> \o MAP_FILE_PATH

\* The message of write_config when the privileged copy failed.
ManualInstructions ==
    <<"No se pudo elevar privilegios automáticamente.", "\n", "\n",
      "Se guardaron archivos de ejemplo en:", "\n", "  ">> \o TMP_MASTER
    \o <<"\n", "  ">> \o TMP_MAP
    \o <<"\n", "\n", "Para instalarlos manualmente:", "\n", "  ", "sudo cp", " ">>
    \o TMP_MASTER \o <<" ">> \o MASTER_D_PATH
    \o <<"\n", "  ", "sudo cp", " ">> \o TMP_MAP \o <<" ">> \o MAP_FILE_PATH
    \o <<"\n", "  ", "sudo systemctl restart autofs", "\n">>

\* The combined copy command of write_config (the paths need no quoting).
CopyCommand ==
    <<"cp", " ">> \o TMP_MASTER \o <<" ">> \o MASTER_D_PATH
    \o <<" ", "&&", " ", "cp", " ">> \o TMP_MAP \o <<" ">> \o MAP_FILE_PATH

\* service_cmd
service_cmd(action) ==
    IF action = "status" THEN <<"systemctl status autofs --no-pager">>
    ELSE <<"systemctl", " ", action, " ", "autofs">>

\* The mapping write_config returns.
WriteResult_NeverTemporary(temporary) ==
    [temporary |-> FALSE, paths |-> <<MASTER_D_PATH, MAP_FILE_PATH>>,
     message |-> SavedMessage]

WriteResult(temporary) ==
    IF temporary
    THEN [temporary |-> TRUE, paths |-> <<TMP_MASTER, TMP_MAP>>,
          message |-> ManualInstructions]
    ELSE [temporary |-> FALSE, paths |-> <<MASTER_D_PATH, MAP_FILE_PATH>>,
          message |-> SavedMessage]

NoResult == [temporary |-> FALSE, paths |-> <<>>, message |-> <<>>]

Banner_Bare(path) == <<"===">>

\* print("===", path, "===")
Banner(path) == <<"===", " ">> \o path \o <<" ", "===">>

\* int(args.timeout or 120) of the --entries-json source; the other sources
\* take a given --timeout as it is.
ResolvedTimeout(source, timeout) ==
    IF source = "entries_json" /\ timeout = 0 THEN 120 ELSE timeout

CliReturnCode_Zero(rc) == 0

\* "return rc"
CliReturnCode(rc) == rc

RestartWanted_IgnoreTemporary(restart, temporary) == restart

\* "if args.restart and not res['temporary']"
RestartWanted(restart, temporary) == restart /\ ~temporary

CliInit ==
    /\ cliPc = "start"
    /\ cliArgs \in [write : BOOLEAN, restart : BOOLEAN,
                    timeout : CliTimeouts, ghost : BOOLEAN]
    /\ cliRoot \in BOOLEAN
    /\ cliCmd \in CliCommands
    /\ (cliCmd.cmd # "build" => cliArgs = PlainArgs /\ ~cliRoot)
    /\ cliOpRc = -1
    /\ cliCopyRc = -1
    /\ cliOut = <<>>
    /\ cliReturned = NoResult
    /\ cliSudo = <<>>
    /\ cliEntries = <<>>
    /\ cliBodies = NoBodies
    /\ cliRes = "none"
    /\ cliTemporary = FALSE
    /\ cliEvents = <<>>
    /\ cliRestartRc = -1
    /\ cliExit = -1
    /\ etcFiles = NoFiles
    /\ tmpFiles = NoFiles

CliIdle ==
    /\ cliPc = "start"
    /\ cliArgs = PlainArgs
    /\ cliRoot = FALSE
    /\ cliCmd = [cmd |-> "build", arg |-> "system"]
    /\ cliOpRc = -1
    /\ cliCopyRc = -1
    /\ cliOut = <<>>
    /\ cliReturned = NoResult
    /\ cliSudo = <<>>
    /\ cliEntries = <<>>
    /\ cliBodies = NoBodies
    /\ cliRes = "none"
    /\ cliTemporary = FALSE
    /\ cliEvents = <<>>
    /\ cliRestartRc = -1
    /\ cliExit = -1
    /\ etcFiles = NoFiles
    /\ tmpFiles = NoFiles

\* _resolve_entries: the entries of the chosen source, or its error
\* (unreadable --entries-json file) uncaught
CliResolve ==
    /\ UNCHANGED notCli
    /\ UNCHANGED <<cliCmd, cliOpRc, cliCopyRc, cliOut, cliReturned, cliSudo>>
    /\ cliPc = "start"
    /\ cliCmd.cmd = "build"
    /\ \/ \E es \in CliEntryLists :
             /\ cliEntries' = es
             /\ cliPc' = "resolved"
             /\ UNCHANGED cliExit
       \/ /\ cliCmd.arg = "entries_json"
          /\ cliPc' = "exit"
          /\ cliExit' = UncaughtExit
          /\ UNCHANGED cliEntries
    /\ UNCHANGED <<cliArgs, cliRoot, cliBodies, cliRes, cliTemporary, cliEvents,
                   cliRestartRc, etcFiles, tmpFiles>>

\* use.build_files; its ValueError is not caught
CliBuildFiles ==
    /\ UNCHANGED notCli
    /\ UNCHANGED <<cliCmd, cliOpRc, cliCopyRc, cliOut, cliReturned, cliSudo>>
    /\ cliPc = "resolved"
    /\ cliBodies' = build_files(cliEntries,
                                ResolvedTimeout(cliCmd.arg, cliArgs.timeout),
                                cliArgs.ghost)
    /\ IF cliBodies'.ok
       THEN cliPc' = "built" /\ UNCHANGED cliExit
       ELSE cliPc' = "exit" /\ cliExit' = UncaughtExit
    /\ UNCHANGED <<cliArgs, cliRoot, cliEntries, cliRes, cliTemporary, cliEvents,
                   cliRestartRc, etcFiles, tmpFiles>>

\* without --write: print both bodies, return 0
CliPrint ==
    /\ UNCHANGED notCli
    /\ cliPc = "built"
    /\ ~cliArgs.write
    /\ UNCHANGED <<cliCmd, cliOpRc, cliCopyRc, cliReturned, cliSudo>>
    /\ cliOut' = cliOut \o <<Banner(MASTER_D_PATH), cliBodies.master,
                              Banner(MAP_FILE_PATH), cliBodies.map>>
    /\ cliEvents' = Append(cliEvents, "print")
    /\ cliPc' = "exit"
    /\ cliExit' = 0
    /\ UNCHANGED <<cliArgs, cliRoot, cliEntries, cliBodies, cliRes, cliTemporary,
                   cliRestartRc, etcFiles, tmpFiles>>

WriteRaised ==
    /\ UNCHANGED <<cliOut, cliReturned>>
    /\ cliRes' = "raised"
    /\ cliPc' = "exit"
    /\ cliExit' = UncaughtExit
    /\ UNCHANGED cliTemporary

WriteReturned(temporary) ==
    /\ cliReturned' = WriteResult(temporary)
    /\ cliOut' = Append(cliOut, cliReturned'.message)
    /\ cliRes' = "returned"
    /\ cliTemporary' = temporary
    /\ cliPc' = "written"
    /\ UNCHANGED cliExit

\* write_config(as_root = TRUE): two direct writes, either of which may raise
CliWriteAsRoot ==
    /\ UNCHANGED notCli
    /\ cliPc = "built"
    /\ cliArgs.write
    /\ cliRoot
    /\ UNCHANGED <<cliCmd, cliOpRc, cliCopyRc, cliSudo>>
    /\ cliEvents' = Append(cliEvents, "write_config")
    /\ \/ /\ etcFiles' = [master |-> cliBodies.master, map |-> cliBodies.map]
          /\ WriteReturned(FALSE)
       \/ /\ etcFiles' = [etcFiles EXCEPT !.master = cliBodies.master]
          /\ WriteRaised
       \/ /\ UNCHANGED etcFiles
          /\ WriteRaised
    /\ UNCHANGED <<cliArgs, cliRoot, cliEntries, cliBodies, cliRestartRc, tmpFiles>>

\* write_config(as_root = FALSE): two temporary files, one privileged copy
CliWriteViaSudo ==
    /\ UNCHANGED notCli
    /\ cliPc = "built"
    /\ cliArgs.write
    /\ ~cliRoot
    /\ UNCHANGED <<cliCmd, cliOpRc>>
    /\ cliEvents' = Append(cliEvents, "write_config")
    /\ \/ /\ tmpFiles' = [master |-> cliBodies.master, map |-> cliBodies.map]
          /\ cliSudo' = Append(cliSudo, CopyCommand)
          /\ \E o \in SudoCopyOutcomes :
                /\ etcFiles' = [master |-> IF o.copied >= 1 THEN cliBodies.master
                                           ELSE etcFiles.master,
                                map |-> IF o.copied = 2 THEN cliBodies.map
                                        ELSE etcFiles.map]
                /\ cliCopyRc' = o.rc
                /\ WriteReturned(o.rc # 0)
       \/ /\ tmpFiles' = [tmpFiles EXCEPT !.master = cliBodies.master]
          /\ UNCHANGED <<etcFiles, cliSudo, cliCopyRc>>
          /\ WriteRaised
       \/ /\ UNCHANGED <<tmpFiles, etcFiles, cliSudo, cliCopyRc>>
          /\ WriteRaised
    /\ UNCHANGED <<cliArgs, cliRoot, cliEntries, cliBodies, cliRestartRc>>

\* use.service("restart"); return rc
CliRestart ==
    /\ UNCHANGED notCli
    /\ cliPc = "written"
    /\ RestartWanted(cliArgs.restart, cliTemporary)
    /\ UNCHANGED <<cliCmd, cliOpRc, cliCopyRc, cliReturned>>
    /\ cliEvents' = Append(cliEvents, "restart")
    /\ cliSudo' = Append(cliSudo, service_cmd("restart"))
    /\ cliOut' = Append(cliOut, <<"<restart output>">>)
    /\ \E rc \in ServiceCodes :
           /\ cliRestartRc' = rc
           /\ cliExit' = CliReturnCode(rc)
    /\ cliPc' = "exit"
    /\ UNCHANGED <<cliArgs, cliRoot, cliEntries, cliBodies, cliRes, cliTemporary,
                   etcFiles, tmpFiles>>

\* return 0
CliReturn ==
    /\ UNCHANGED notCli
    /\ cliPc = "written"
    /\ ~RestartWanted(cliArgs.restart, cliTemporary)
    /\ UNCHANGED <<cliCmd, cliOpRc, cliCopyRc, cliOut, cliReturned, cliSudo>>
    /\ cliPc' = "exit"
    /\ cliExit' = 0
    /\ UNCHANGED <<cliArgs, cliRoot, cliEntries, cliBodies, cliRes, cliTemporary,
                   cliEvents, cliRestartRc, etcFiles, tmpFiles>>

\* The operation behind a plain subcommand.
OperationOf(c) ==
    CASE c.cmd = "service" -> "service"
      [] c.cmd = "ssh-check" -> "ssh_test"
      [] c.cmd = "ls" -> "test_ls"
      [] c.cmd = "umount" -> "umount"
      [] OTHER -> "none"

\* cmd_service, cmd_ls, cmd_umount: one call of the operation, print its
\* output, return its rc; service goes through run_sudo unless the action
\* is status
CliPlainCommand ==
    /\ UNCHANGED notCli
    /\ cliPc = "start"
    /\ cliCmd.cmd \in {"service", "ls", "umount"}
    /\ cliEvents' = Append(cliEvents, OperationOf(cliCmd))
    /\ cliSudo' = IF cliCmd.cmd = "service" /\ cliCmd.arg # "status"
                  THEN Append(cliSudo, service_cmd(cliCmd.arg))
                  ELSE cliSudo
    /\ \E rc \in ExitCodes :
           /\ cliOpRc' = rc
           /\ cliExit' = CliReturnCode(rc)
    /\ cliOut' = Append(cliOut, <<"<output>">>)
    /\ cliPc' = "exit"
    /\ UNCHANGED <<cliArgs, cliRoot, cliEntries, cliBodies, cliRes, cliTemporary,
                   cliRestartRc, etcFiles, tmpFiles, cliCmd, cliReturned, cliCopyRc>>

\* cmd_ssh_check: use.ssh_test raises ValueError for a blank host, else
\* runs the ssh command and hands back its rc
CliSshCheck ==
    /\ UNCHANGED notCli
    /\ cliPc = "start"
    /\ cliCmd.cmd = "ssh-check"
    /\ cliEvents' = Append(cliEvents, OperationOf(cliCmd))
    /\ IF Strip(<<cliCmd.arg>>) = <<>>
       THEN /\ cliExit' = UncaughtExit
            /\ UNCHANGED <<cliOpRc, cliOut>>
       ELSE /\ \E rc \in ExitCodes :
                  /\ cliOpRc' = rc
                  /\ cliExit' = CliReturnCode(rc)
            /\ cliOut' = Append(cliOut, <<"<output>">>)
    /\ cliPc' = "exit"
    /\ UNCHANGED <<cliArgs, cliRoot, cliEntries, cliBodies, cliRes, cliTemporary,
                   cliRestartRc, etcFiles, tmpFiles, cliCmd, cliReturned, cliSudo,
                   cliCopyRc>>

CliNext ==
    \/ CliPlainCommand
    \/ CliSshCheck
    \/ CliResolve
    \/ CliBuildFiles
    \/ CliPrint
    \/ CliWriteAsRoot
    \/ CliWriteViaSudo
    \/ CliRestart
    \/ CliReturn

(***************************************************************************)
(* Claims about build --write                                              *)
(***************************************************************************)
RestartIssued == \E i \in 1..Len(cliEvents) : cliEvents[i] = "restart"

BuildWriteEnded == cliPc = "exit" /\ cliArgs.write

\* The restart part of the claim: issued exactly when --restart was given
\* and write_config returned temporary = false, after the write, and its
\* exit code is the command's.
C7_RestartRule ==
    /\ RestartIssued <=>
           /\ cliArgs.restart
           /\ cliRes = "returned"
           /\ ~cliTemporary
    /\ RestartIssued =>
           /\ cliEvents = <<"write_config", "restart">>
           /\ cliExit = cliRestartRc

PlainCommandEnded ==
    cliPc = "exit" /\ cliCmd.cmd \in {"service", "ssh-check", "ls", "umount"}

\* C12: service, ssh-check, ls and umount call their operation exactly
\* once and return the exit code it handed back, whatever that code is.
C12_ExitCodePassThrough ==
    PlainCommandEnded =>
        /\ cliEvents = <<OperationOf(cliCmd)>>
        /\ (cliOpRc # -1 => cliExit = cliOpRc)

C12_Witness ==
    /\ PlainCommandEnded
    /\ cliCmd.cmd = "ssh-check"
    /\ cliOpRc = 124
    /\ cliExit = 124

BuildPrintEnded == cliPc = "exit" /\ cliCmd.cmd = "build" /\ ~cliArgs.write

\* Neither write_config nor a service action was invoked, no privileged
\* command was run and no file was written.
NothingWritten ==
    /\ \A i \in 1..Len(cliEvents) : cliEvents[i] \notin {"write_config", "restart", "service"}
    /\ cliSudo = <<>>
    /\ etcFiles = NoFiles
    /\ tmpFiles = NoFiles

\* Both banners and both bodies were printed, in order.
BannersAndBodiesPrinted ==
    /\ Len(cliOut) = 4
    /\ cliOut[1] = <<"===", " ", "/etc/auto.master.d/sshfs-manager.autofs", " ", "===">>
    /\ cliOut[2] = cliBodies.master
    /\ cliOut[3] = <<"===", " ", "/etc/auto.sshfs-manager", " ", "===">>
    /\ cliOut[4] = cliBodies.map
    /\ cliBodies.ok
    /\ cliBodies.map = build_map_file(cliEntries, FALSE).text

NonCommentLines(txt) ==
    SelectSeq(SplitLines(txt), LAMBDA l : ~StartsWith(l, <<"#">>))

\* The arguments cmd_build hands to build_master_file through build_files.
MasterTimeout == ResolvedTimeout(cliCmd.arg, cliArgs.timeout)

MasterLinePrefix == <<"/-", " ">> \o MAP_FILE_PATH \o <<" ", "--timeout", "=">>

MasterBuilt == cliCmd.cmd = "build" /\ cliBodies.ok

\* C14: for every timeout and ghost value the master file holds exactly one
\* non-comment line, `/- <map_file_path> --timeout=<timeout>`, the timeout
\* in decimal, followed by ` --ghost` if and only if ghost is true.
C14_MasterLine ==
    MasterBuilt =>
        LET ls == NonCommentLines(cliBodies.master)
            ghostPart == IF cliArgs.ghost THEN <<" ", "--ghost">> ELSE <<>>
        IN  /\ Len(ls) = 1
            /\ StartsWith(ls[1], MasterLinePrefix)
            /\ LET rest == SubSeq(ls[1], Len(MasterLinePrefix) + 1, Len(ls[1]))
                   digits == SubSeq(rest, 1, Len(rest) - Len(ghostPart))
               IN  /\ Len(rest) > Len(ghostPart)
                   /\ EndsWith(rest, ghostPart)
                   /\ IsInt(digits)
                   /\ StrToInt(digits) = MasterTimeout
                   /\ (digits[1] = "0" => digits = <<"0">>)

C14_Witness ==
    /\ MasterBuilt
    /\ ~cliArgs.ghost
    /\ MasterTimeout = 120
    /\ NonCommentLines(cliBodies.master)
         = << MasterLinePrefix \o <<"1", "2", "0">> >>

\* write_config was called and returned its result.
WriteConfigReturned == cliCmd.cmd = "build" /\ cliRes = "returned"

BothBodies == [master |-> cliBodies.master, map |-> cliBodies.map]

\* The privileged calls write_config made (a restart may follow them).
CopyCalls == SelectSeq(cliSudo, LAMBDA c : c = CopyCommand)

\* C20: write_config with as_root false writes both bodies to the two /tmp
\* paths and then makes one combined privileged copy; it returns
\* temporary=false with the managed paths exactly when the copy exits 0, and
\* otherwise temporary=true with the temp paths and the manual-install
\* instructions; with as_root true it writes both bodies to the managed
\* paths, makes no privileged call and returns temporary=false.
C20_WriteConfig ==
    /\ (WriteConfigReturned /\ ~cliRoot =>
            /\ tmpFiles = BothBodies
            /\ Len(CopyCalls) = 1
            /\ cliSudo[1] = CopyCommand
            /\ cliCopyRc # -1
            /\ (cliCopyRc = 0 =>
                    cliReturned = [temporary |-> FALSE,
                                   paths |-> <<MASTER_D_PATH, MAP_FILE_PATH>>,
                                   message |-> SavedMessage])
            /\ (cliCopyRc # 0 =>
                    cliReturned = [temporary |-> TRUE,
                                   paths |-> <<TMP_MASTER, TMP_MAP>>,
                                   message |-> ManualInstructions]))
    /\ (WriteConfigReturned /\ cliRoot =>
            /\ etcFiles = BothBodies
            /\ tmpFiles = NoFiles
            /\ CopyCalls = <<>>
            /\ cliCopyRc = -1
            /\ ~cliReturned.temporary
            /\ cliReturned.paths = <<MASTER_D_PATH, MAP_FILE_PATH>>)
    /\ (cliCmd.cmd = "build" /\ cliRoot => CopyCalls = <<>>)

C20_Witness ==
    /\ WriteConfigReturned
    /\ ~cliRoot
    /\ cliCopyRc = 124
    /\ cliReturned.temporary
    /\ cliReturned.paths = <<TMP_MASTER, TMP_MAP>>
    /\ tmpFiles = BothBodies

C20_WitnessRoot ==
    /\ WriteConfigReturned
    /\ cliRoot
    /\ etcFiles = BothBodies
    /\ ~cliReturned.temporary

\* write_config has ended, with a result or with an exception.
WriteConfigEnded ==
    /\ cliCmd.cmd = "build"
    /\ Len(SelectSeq(cliEvents, LAMBDA e : e = "write_config")) = 1
    /\ cliRes \in {"returned", "raised"}

\* C27: write_config installs the two managed files together or not at all:
\* after temporary=true or an exception neither managed file is modified,
\* after temporary=false both hold the bodies given.
C27_Original ==
    WriteConfigEnded =>
        /\ (cliRes = "raised" => etcFiles = NoFiles)
        /\ (cliRes = "returned" /\ cliReturned.temporary => etcFiles = NoFiles)
        /\ (cliRes = "returned" /\ ~cliReturned.temporary => etcFiles = BothBodies)

\* What does hold: temporary=false means both files are installed; in every
\* other ending the map file is untouched and the master file is untouched
\* or already replaced.
ManagedPairAfterWrite ==
    WriteConfigEnded =>
        /\ (cliRes = "returned" /\ ~cliReturned.temporary => etcFiles = BothBodies)
        /\ (cliRes = "raised" \/ cliReturned.temporary =>
                /\ etcFiles.map = NoFiles.map
                /\ etcFiles.master \in {NoFiles.master, cliBodies.master})

(***************************************************************************)
(* AppState and the state repository                                       *)
(***************************************************************************)
MaxStateEntries == 2

\* Python's None where a text is expected (UIState.window_geometry).
NoneText == <<None>>

EntryRequired == {"mount_point", "host", "remote_path"}
EntryDefaults ==
    [user |-> <<>>, fstype |-> FuseSshfs, identity_file |-> <<>>,
     allow_other |-> TRUE, uid |-> <<"1", "0", "0", "0">>,
     gid |-> <<"1", "0", "0", "0">>, umask |-> <<"0", "2", "2">>,
     server_alive_interval |-> 15, server_alive_count |-> 3,
     reconnect |-> TRUE, delay_connect |-> TRUE, extra_options |-> <<>>]
EntryFields == EntryRequired \cup DOMAIN EntryDefaults

MasterOptionsDefaults == [timeout |-> 120, ghost |-> TRUE]
UIStateDefaults ==
    [window_geometry |-> NoneText, active_tab |-> 0, filter_query |-> <<>>,
     ui_theme |-> <<"clam">>]

BoolFields == {"allow_other", "reconnect", "delay_connect", "ghost"}
IntFields == {"server_alive_interval", "server_alive_count", "timeout", "active_tab"}

TypeError == [ok |-> FALSE, v |-> <<>>]
Made(v) == [ok |-> TRUE, v |-> v]

\* cls(**d) for a dataclass with the given required fields and defaults:
\* TypeError on an unknown keyword or a missing required one.
Construct(d, required, defaults) ==
    IF DOMAIN d \subseteq (required \cup DOMAIN defaults) /\ required \subseteq DOMAIN d
    THEN Made([k \in required \cup DOMAIN defaults |->
                   IF k \in DOMAIN d THEN d[k] ELSE defaults[k]])
    ELSE TypeError

\* SshfsEntry.from_dict
SshfsEntry_from_dict(d) == Construct(d, EntryRequired, EntryDefaults)

\* UIState.from_dict
UIState_from_dict(d) == Construct(d, {}, UIStateDefaults)

\* dict.get(key, default)
Get(d, key, default) == IF key \in DOMAIN d THEN d[key] ELSE default

\* AppState.from_dict
AppState_from_dict(d) ==
    LET xs == Get(d, "entries", <<>>)
        es == [i \in 1..Len(xs) |-> SshfsEntry_from_dict(xs[i])]
        mo == Construct(Get(d, "master_options", <<>>), {}, MasterOptionsDefaults)
        ui == UIState_from_dict(Get(d, "ui", <<>>))
    IN  IF (\A i \in 1..Len(xs) : es[i].ok) /\ mo.ok /\ ui.ok
        THEN Made([entries |-> [i \in 1..Len(xs) |-> es[i].v],
                   master_options |-> mo.v,
                   ui |-> ui.v])
        ELSE TypeError

AppState_to_dict_NoMasterOptions(st) ==
    [entries |-> st.entries, ui |-> st.ui]

\* AppState.to_dict (asdict of every dataclass)
AppState_to_dict(st) ==
    [entries |-> [i \in 1..Len(st.entries) |->
                     [k \in EntryFields |-> st.entries[i][k]]],
     master_options |-> [k \in DOMAIN MasterOptionsDefaults |-> st.master_options[k]],
     ui |-> [k \in DOMAIN UIStateDefaults |-> st.ui[k]]]

\* JSON string literal: the text between quotes, with \ and " escaped
RECURSIVE JsonEscape(_)
JsonEscape(t) ==
    IF t = <<>> THEN <<>>
    ELSE (IF Head(t) \in {"\\", "\""} THEN <<"\\", Head(t)>> ELSE <<Head(t)>>)
         \o JsonEscape(Tail(t))

RECURSIVE JsonUnescape(_)
JsonUnescape(t) ==
    IF t = <<>> THEN <<>>
    ELSE IF Head(t) = "\\" /\ Len(t) >= 2
         THEN <<t[2]>> \o JsonUnescape(SubSeq(t, 3, Len(t)))
         ELSE <<Head(t)>> \o JsonUnescape(Tail(t))

\* json.dump of one value of the field named k
JsonLeaf(k, v) ==
    IF k \in BoolFields THEN (IF v THEN <<"true">> ELSE <<"false">>)
    ELSE IF k \in IntFields THEN IntToStr(v)
    ELSE IF v = NoneText THEN <<"null">>
    ELSE <<"\"">> \o JsonEscape(v) \o <<"\"">>

\* json.load of one value
JsonLeafDecode(t) ==
    IF t = <<"null">> THEN NoneText
    ELSE IF t = <<"true">> THEN TRUE
    ELSE IF t = <<"false">> THEN FALSE
    ELSE IF Head(t) = "\"" THEN JsonUnescape(SubSeq(t, 2, Len(t) - 1))
    ELSE StrToInt(t)

JsonObject(d) == [k \in DOMAIN d |-> JsonLeaf(k, d[k])]
PyObject(o) == [k \in DOMAIN o |-> JsonLeafDecode(o[k])]

\* json.dump of a state mapping: the document written to the file
json_dump(d) ==
    [k \in DOMAIN d |->
        IF k = "entries" THEN [i \in 1..Len(d[k]) |-> JsonObject(d[k][i])]
        ELSE JsonObject(d[k])]

\* json.load of such a document
json_load(doc) ==
    [k \in DOMAIN doc |->
        IF k = "entries" THEN [i \in 1..Len(doc[k]) |-> PyObject(doc[k][i])]
        ELSE PyObject(doc[k])]

FileAbsent == [kind |-> "absent", doc |-> <<>>]
FileCorrupt == [kind |-> "corrupt", doc |-> <<>>]
FileJson(doc) == [kind |-> "json", doc |-> doc]

\* load_state: {} when the file is absent or json.load raises
load_state(file) ==
    IF file.kind = "json" THEN json_load(file.doc) ELSE <<>>

\* save_state: the file afterwards
save_state(data) == FileJson(json_dump(data))

StateEntries ==
    { GoodEntry,
      SshfsEntry(<<"/", "m", " ", "d">>, <<"h">>, <<"/", "r", "\\", "0", "4", "0", "s">>,
                 CHOOSE o \in OptionProfiles : o.identity_file = RootPrefix \o <<"k">>),
      SshfsEntry(<<"/", "m">>, <<"h">>, <<"/", "r", " ", "s">>,
                 CHOOSE o \in OptionProfiles : ~o.allow_other) }

EntrySeqs == UNION {[1..n -> StateEntries] : n \in 0..MaxStateEntries}

AppStates ==
    { [entries |-> es, master_options |-> mo, ui |-> ui] :
        es \in EntrySeqs,
        mo \in [timeout : {120, 0, 90}, ghost : BOOLEAN],
        ui \in [window_geometry : {NoneText, <<"8", "x", "6">>, <<"n", "u", "l", "l">>},
                active_tab : {0, 1},
                filter_query : {<<>>, <<"a", "\"", "\\", "b">>},
                ui_theme : {<<"clam">>, <<"alt">>}] }

DefaultAppState ==
    [entries |-> <<>>, master_options |-> MasterOptionsDefaults, ui |-> UIStateDefaults]

\* Files found at start: none, an unparseable one, and documents written
\* by hand or by another version (keys missing).
InitialFiles ==
    { FileAbsent, FileCorrupt,
      FileJson(<<>>),
      FileJson([master_options |-> [timeout |-> <<"9", "0">>]]),
      FileJson([ui |-> [ui_theme |-> <<"\"", "alt", "\"">>], extra |-> <<>>]),
      FileJson([master_options |-> [timeout |-> <<"9", "0">>, bogus |-> <<"1">>]]),
      FileJson([entries |-> << JsonObject([host |-> <<"h">>,
                                           remote_path |-> <<"/", "r">>]) >>]),
      FileJson([entries |-> << JsonObject([mount_point |-> <<"/", "m">>,
                                           host |-> <<"h">>,
                                           remote_path |-> <<"/", "r">>,
                                           port |-> <<"2", "2">>]) >>]),
      FileJson([entries |-> << JsonObject([mount_point |-> <<"/", "m">>,
                                           host |-> <<"h">>,
                                           remote_path |-> <<"/", "r">>]) >>,
                ui |-> [active_tab |-> <<"1">>]]) }

NotLoaded == [ok |-> FALSE, v |-> <<"not loaded">>]

StInit ==
    /\ stFile \in InitialFiles
    /\ stPc = "idle"
    /\ stSaved = DefaultAppState
    /\ stRaw = <<>>
    /\ stLoaded = NotLoaded

StIdle ==
    /\ stFile = FileAbsent
    /\ stPc = "idle"
    /\ stSaved = DefaultAppState
    /\ stRaw = <<>>
    /\ stLoaded = NotLoaded

\* save_state(state.to_dict()), once per run: at start or after the
\* start-up load
StSave ==
    /\ UNCHANGED notSt
    /\ stPc \in {"idle", "loaded"}
    /\ \E st \in AppStates :
           /\ stFile' = save_state(AppState_to_dict(st))
           /\ stSaved' = st
    /\ stPc' = "saved"
    /\ stRaw' = <<>>
    /\ stLoaded' = NotLoaded

\* AppState.from_dict(load_state())
StLoad ==
    /\ UNCHANGED notSt
    /\ stPc \in {"idle", "saved"}
    /\ stRaw' = load_state(stFile)
    /\ stLoaded' = AppState_from_dict(stRaw')
    /\ stPc' = IF stPc = "saved" THEN "reloaded" ELSE "loaded"
    /\ UNCHANGED <<stFile, stSaved>>

StNext == StSave \/ StLoad

(***************************************************************************)
(* Claims about state persistence                                          *)
(***************************************************************************)
\* C8: an AppState saved with save_state(to_dict()) and reloaded with
\* load_state and AppState.from_dict is equal to the one saved; with no
\* state file or an unparseable one load_state returns the empty mapping,
\* which decodes to no entries, timeout 120 and ghost true.
C8_SaveLoadRoundTrip ==
    /\ stPc = "reloaded" => stLoaded = Made(stSaved)
    /\ stPc = "loaded" /\ stFile.kind \in {"absent", "corrupt"} =>
           /\ DOMAIN stRaw = {}
           /\ stLoaded.ok
           /\ stLoaded.v.entries = <<>>
           /\ stLoaded.v.master_options.timeout = 120
           /\ stLoaded.v.master_options.ghost = TRUE

C8_Witness ==
    /\ stPc = "reloaded"
    /\ stLoaded.ok
    /\ Len(stLoaded.v.entries) = 2
    /\ stLoaded.v.entries[1].identity_file # <<>>
    /\ stLoaded.v.master_options.timeout = 90
    /\ stLoaded.v.ui.window_geometry = NoneText
    /\ stLoaded.v.ui.filter_query # <<>>

C8_WitnessNoFile ==
    /\ stPc = "loaded"
    /\ stFile = FileCorrupt
    /\ stLoaded = Made(DefaultAppState)

\* The decoding the claim describes: known keys kept, absent ones at their
\* default, unknown ones dropped.
Tolerant(d, defaults) ==
    [k \in DOMAIN defaults |-> IF k \in DOMAIN d THEN d[k] ELSE defaults[k]]

StartupLoaded == stPc = "loaded" /\ stFile.kind = "json"

\* C22 as stated: decoding never fails because of the key set; for AppState,
\* SshfsEntry, MasterOptions and UIState absent keys take the field's
\* default and unknown keys are ignored.
C22_Original ==
    StartupLoaded =>
        /\ stLoaded.ok
        /\ stLoaded.v.master_options
             = Tolerant(Get(stRaw, "master_options", <<>>), MasterOptionsDefaults)
        /\ stLoaded.v.ui = Tolerant(Get(stRaw, "ui", <<>>), UIStateDefaults)
        /\ Len(stLoaded.v.entries) = Len(Get(stRaw, "entries", <<>>))
        /\ \A i \in 1..Len(stLoaded.v.entries) :
              \A k \in DOMAIN EntryDefaults :
                 stLoaded.v.entries[i][k] = Tolerant(stRaw.entries[i], EntryDefaults)[k]

\* The key sets of a mapping are the ones the dataclasses know, the three
\* required entry fields included.
KnownKeySets(raw) ==
    /\ DOMAIN Get(raw, "master_options", <<>>) \subseteq DOMAIN MasterOptionsDefaults
    /\ DOMAIN Get(raw, "ui", <<>>) \subseteq DOMAIN UIStateDefaults
    /\ \A i \in 1..Len(Get(raw, "entries", <<>>)) :
          /\ DOMAIN raw.entries[i] \subseteq EntryFields
          /\ EntryRequired \subseteq DOMAIN raw.entries[i]

\* What holds instead: decoding succeeds exactly for such mappings (unknown
\* top-level keys are ignored), and then absent keys take their defaults.
DecodeFailsOnKeySet ==
    StartupLoaded =>
        /\ stLoaded.ok = KnownKeySets(stRaw)
        /\ (stLoaded.ok =>
              /\ stLoaded.v.master_options
                   = Tolerant(Get(stRaw, "master_options", <<>>), MasterOptionsDefaults)
              /\ stLoaded.v.ui = Tolerant(Get(stRaw, "ui", <<>>), UIStateDefaults))

(***************************************************************************)
(* Main window: edits, the debounce timer and the auto-apply pass          *)
(*                                                                         *)
(* The window runs on one thread.  A handler runs to its end before the    *)
(* next event is taken, except where it opens a modal dialog: the dialog   *)
(* runs an event loop of its own, in which timers fire.  Input to the      *)
(* option widgets during a dialog of a pass is allowed here although the   *)
(* dialogs are modal: the model then covers more interleavings than Qt     *)
(* delivers.                                                               *)
(***************************************************************************)
DEBOUNCE_MS == 400
TickMs == 200
MaxEdits == 3
MaxApplyDepth == 2

TimerOff == -1

EditKinds == {"timeout", "ghost", "add", "edit", "delete"}

\* The reason each handler hands to _mark_dirty.
ReasonOf(kind) ==
    CASE kind = "timeout" -> "Timeout actualizado."
      [] kind = "ghost" -> "Opción --ghost actualizada."
      [] kind = "add" -> "Se agregó una entrada."
      [] kind = "edit" -> "Se actualizó una entrada."
      [] kind = "delete" -> "Se eliminó una entrada."

DefaultReason == "Cambios aplicados."

ServiceStates == {"checking", "running", "stopped", "unknown"}

\* One _apply_changes call on the stack: where it stands, the modal dialog it
\* has open, whether its current privileged call has prompted already.
Frame(pc) == [pc |-> pc, modal |-> "none", prompted |-> FALSE]

Top == passStack[Len(passStack)]
SetTop(f) == [passStack EXCEPT ![Len(passStack)] = f]
Pop == SubSeq(passStack, 1, Len(passStack) - 1)

\* The innermost handler is inside a dialog, or no handler is running.
LoopRunning == IF passStack = <<>> THEN TRUE ELSE Top.modal # "none"

\* The innermost pass is running code (not waiting in a dialog) at pc.
PassAt(pc) == passStack # <<>> /\ Top.pc = pc /\ Top.modal = "none"

\* _schedule_apply(reason): the pending reason and the timer it leaves
schedule_apply_NoRestart(reason) ==
    IF is_applying
    THEN [reason |-> pending_apply_reason, timer |-> apply_timer]
    ELSE [reason |-> reason,
          timer |-> IF apply_timer # TimerOff THEN apply_timer ELSE DEBOUNCE_MS]

schedule_apply(reason) ==
    IF is_applying
    THEN [reason |-> pending_apply_reason, timer |-> apply_timer]
    ELSE [reason |-> reason, timer |-> DEBOUNCE_MS]

\* _mark_dirty(True, reason) as called by the five handlers
MarkDirty(kind) ==
    /\ dirty' = TRUE
    /\ pending_apply_reason' = schedule_apply(ReasonOf(kind)).reason
    /\ apply_timer' = schedule_apply(ReasonOf(kind)).timer
    /\ guiEdits' = guiEdits + 1
    /\ guiLastEdit' = kind
    /\ guiBurst' = IF is_applying THEN guiBurst ELSE guiBurst + 1
    /\ guiMissed' = IF is_applying THEN guiMissed + 1 ELSE guiMissed

\* else-branch of `if temporary` in _apply_changes
GuiRestartWanted(result) == ~result.temporary

\* _restart_service_silent: True exactly when service("restart") returned 0
restart_service_silent_AnyReturn(out, rc) == out = "returned"

restart_service_silent(out, rc) == out = "returned" /\ rc = 0

LogEntry(op, out, rc) == [op |-> op, out |-> out, rc |-> rc]

GuiInit ==
    /\ dirty = FALSE
    /\ is_applying = FALSE
    /\ pending_apply_reason = None
    /\ apply_timer = TimerOff
    /\ passStack = <<>>
    /\ guiDialog = "none"
    /\ guiLog = <<>>
    /\ guiReason = None
    /\ guiEdits = 0
    /\ guiLastEdit = "none"
    /\ guiBurst = 0
    /\ guiMissed = 0
    /\ guiPasses = 0
    /\ guiService = "checking"

\* _on_timeout_changed, _on_ghost_toggled
GuiOptionChanged ==
    /\ UNCHANGED notGui
    /\ guiEdits < MaxEdits
    /\ IF passStack = <<>> THEN guiDialog = "none" ELSE Top.modal # "none"
    /\ \E kind \in {"timeout", "ghost"} : MarkDirty(kind)
    /\ UNCHANGED <<is_applying, passStack, guiDialog, guiLog, guiReason,
                   guiPasses, guiService>>

\* _add_entry, _edit_entry, _delete_entry: the dialog opens
GuiOpenDialog ==
    /\ UNCHANGED notGui
    /\ guiEdits < MaxEdits
    /\ passStack = <<>>
    /\ guiDialog = "none"
    /\ \E kind \in {"add", "edit", "delete"} : guiDialog' = kind
    /\ UNCHANGED <<dirty, is_applying, pending_apply_reason, apply_timer,
                   passStack, guiLog, guiReason, guiEdits, guiLastEdit,
                   guiBurst, guiMissed, guiPasses, guiService>>

\* ... and closes: accepted, the entries change and _mark_dirty is called
GuiCloseDialog ==
    /\ UNCHANGED notGui
    /\ guiDialog # "none"
    /\ passStack = <<>>
    /\ guiDialog' = "none"
    /\ \/ MarkDirty(guiDialog)
       \/ UNCHANGED <<dirty, pending_apply_reason, apply_timer, guiEdits,
                      guiLastEdit, guiBurst, guiMissed>>
    /\ UNCHANGED <<is_applying, passStack, guiLog, guiReason, guiPasses,
                   guiService>>

\* TickMs of time pass on the running timer.
GuiTick ==
    /\ UNCHANGED notGui
    /\ apply_timer > 0
    /\ apply_timer' = IF apply_timer > TickMs THEN apply_timer - TickMs ELSE 0
    /\ UNCHANGED <<dirty, is_applying, pending_apply_reason, passStack,
                   guiDialog, guiLog, guiReason, guiEdits, guiLastEdit,
                   guiBurst, guiMissed, guiPasses, guiService>>

\* status_timer fires: _check_service_status
GuiStatusPoll ==
    /\ UNCHANGED notGui
    /\ LoopRunning
    /\ guiService' \in ServiceStates \ {guiService}
    /\ UNCHANGED <<dirty, is_applying, pending_apply_reason, apply_timer,
                   passStack, guiDialog, guiLog, guiReason, guiEdits,
                   guiLastEdit, guiBurst, guiMissed, guiPasses>>

\* _apply_timer fires: _apply_changes up to `self._is_applying = True`
GuiApplyFire_NoFlag ==
    /\ UNCHANGED notGui
    /\ apply_timer = 0
    /\ LoopRunning
    /\ apply_timer' = TimerOff
    /\ pending_apply_reason' = None
    /\ IF is_applying
       THEN UNCHANGED <<is_applying, passStack, guiLog, guiReason, guiBurst, guiMissed,
                        guiPasses>>
       ELSE /\ Len(passStack) < MaxApplyDepth
            /\ UNCHANGED is_applying
            /\ passStack' = Append(passStack, Frame("save"))
            /\ guiReason' = IF pending_apply_reason = None THEN DefaultReason
                            ELSE pending_apply_reason
            /\ guiLog' = <<>>
            /\ guiBurst' = 0
            /\ guiMissed' = 0
            /\ guiPasses' = guiPasses + 1
    /\ UNCHANGED <<dirty, guiDialog, guiEdits, guiLastEdit, guiService>>

GuiApplyFire ==
    /\ UNCHANGED notGui
    /\ apply_timer = 0
    /\ LoopRunning
    /\ apply_timer' = TimerOff
    /\ pending_apply_reason' = None
    /\ IF is_applying
       THEN UNCHANGED <<is_applying, passStack, guiLog, guiReason, guiBurst, guiMissed,
                        guiPasses>>
       ELSE /\ Len(passStack) < MaxApplyDepth
            /\ is_applying' = TRUE
            /\ passStack' = Append(passStack, Frame("save"))
            /\ guiReason' = IF pending_apply_reason = None THEN DefaultReason
                            ELSE pending_apply_reason
            /\ guiLog' = <<>>
            /\ guiBurst' = 0
            /\ guiMissed' = 0
            /\ guiPasses' = guiPasses + 1
    /\ UNCHANGED <<dirty, guiDialog, guiEdits, guiLastEdit, guiService>>

\* What a step of the pass leaves alone.
PassFrame == <<pending_apply_reason, apply_timer, guiDialog, guiReason,
               guiEdits, guiLastEdit, guiBurst, guiMissed, guiPasses>>

\* _save_state(silent=True): returns, or raises and _show_error opens
GuiSaveState ==
    /\ UNCHANGED notGui
    /\ PassAt("save")
    /\ \/ passStack' = SetTop(Frame("fuse"))
       \/ passStack' = SetTop([Frame("failed") EXCEPT !.modal = "error"])
    /\ UNCHANGED <<dirty, is_applying, guiLog, guiService>>
    /\ UNCHANGED PassFrame

\* run_sudo inside a use case of the pass calls ask_pass: the password dialog
GuiPromptPassword ==
    /\ UNCHANGED notGui
    /\ passStack # <<>>
    /\ Top.pc \in {"fuse", "write", "restart", "verify"}
    /\ Top.modal = "none"
    /\ ~Top.prompted
    /\ passStack' = SetTop([Top EXCEPT !.modal = "password", !.prompted = TRUE])
    /\ UNCHANGED <<dirty, is_applying, guiLog, guiService>>
    /\ UNCHANGED PassFrame

\* The user answers the dialog; its event loop ends.
GuiCloseModal ==
    /\ UNCHANGED notGui
    /\ passStack # <<>>
    /\ Top.modal # "none"
    /\ passStack' = SetTop([Top EXCEPT !.modal = "none"])
    /\ UNCHANGED <<dirty, is_applying, guiLog, guiService>>
    /\ UNCHANGED PassFrame

\* enable_user_allow_other when an entry asks for it; failures are logged only
GuiFuseConf ==
    /\ UNCHANGED notGui
    /\ PassAt("fuse")
    /\ passStack' = SetTop(Frame("write"))
    /\ UNCHANGED <<dirty, is_applying, guiLog, guiService>>
    /\ UNCHANGED PassFrame

\* build_files and write_config: raise, or return the result mapping
GuiWriteConfig ==
    /\ UNCHANGED notGui
    /\ PassAt("write")
    /\ \/ /\ guiLog' = Append(guiLog, LogEntry("write_config", "raised", -1))
          /\ passStack' = SetTop([Frame("failed") EXCEPT !.modal = "error"])
       \/ \E temporary \in BOOLEAN :
            /\ guiLog' = Append(guiLog,
                  LogEntry("write_config",
                           IF temporary THEN "temporary" ELSE "saved", -1))
            /\ passStack' = SetTop(Frame(
                  IF GuiRestartWanted(WriteResult(temporary)) THEN "restart"
                  ELSE "finish"))
    /\ UNCHANGED <<dirty, is_applying, guiService>>
    /\ UNCHANGED PassFrame

\* _restart_service_silent
GuiRestart ==
    /\ UNCHANGED notGui
    /\ PassAt("restart")
    /\ \E out \in {"raised", "returned"}, rc \in ServiceCodes :
        /\ out = "raised" => rc = 1
        /\ guiLog' = Append(guiLog,
              LogEntry("restart", out, IF out = "raised" THEN -1 ELSE rc))
        /\ passStack' = SetTop(Frame(
              IF restart_service_silent(out, rc) THEN "verify" ELSE "finish"))
        /\ IF out = "raised" THEN UNCHANGED guiService
           ELSE guiService' \in ServiceStates
    /\ UNCHANGED <<dirty, is_applying>>
    /\ UNCHANGED PassFrame

\* _verify_mounts
GuiVerifyMounts ==
    /\ UNCHANGED notGui
    /\ PassAt("verify")
    /\ guiLog' = Append(guiLog, LogEntry("verify_mounts", "called", -1))
    /\ passStack' = SetTop(Frame("finish"))
    /\ UNCHANGED <<dirty, is_applying, guiService>>
    /\ UNCHANGED PassFrame

\* _mark_dirty(False), then the finally clause
GuiFinish ==
    /\ UNCHANGED notGui
    /\ PassAt("finish")
    /\ dirty' = FALSE
    /\ is_applying' = FALSE
    /\ passStack' = Pop
    /\ UNCHANGED <<guiLog, guiService>>
    /\ UNCHANGED PassFrame

\* `return` after _show_error, then the finally clause
GuiAbort ==
    /\ UNCHANGED notGui
    /\ PassAt("failed")
    /\ is_applying' = FALSE
    /\ passStack' = Pop
    /\ UNCHANGED <<dirty, guiLog, guiService>>
    /\ UNCHANGED PassFrame

GuiNext ==
    \/ GuiOptionChanged
    \/ GuiOpenDialog
    \/ GuiCloseDialog
    \/ GuiTick
    \/ GuiStatusPoll
    \/ GuiApplyFire
    \/ GuiSaveState
    \/ GuiPromptPassword
    \/ GuiCloseModal
    \/ GuiFuseConf
    \/ GuiWriteConfig
    \/ GuiRestart
    \/ GuiVerifyMounts
    \/ GuiFinish
    \/ GuiAbort

\* Passes in progress: _apply_changes calls that went past the guard and
\* have not returned.
PassesInProgress == Len(passStack)

\* C15: at most one auto-apply pass is in progress at any time, whatever the
\* order of edits, timer firings, status polls and dialogs opened during a
\* pass; the flag is set exactly while the pass runs, and while it runs the
\* debounce timer is stopped and nothing is pending, so that no apply fires
\* into a pass in flight.
C15_OnePassAtATime ==
    /\ PassesInProgress <= 1
    /\ (is_applying <=> passStack # <<>>)
    /\ (is_applying => apply_timer = TimerOff /\ pending_apply_reason = None)

\* A pass waits in the password dialog; an option was changed meanwhile (the
\* last edit is not the one the pass runs for) and scheduled nothing.
C15_Witness ==
    /\ PassesInProgress = 1
    /\ Top.modal = "password"
    /\ guiPasses = 1
    /\ guiReason = ReasonOf("timeout")
    /\ guiLastEdit = "ghost"
    /\ apply_timer = TimerOff

IsOp(e, op) == e.op = op

LogHas(op) == \E i \in 1..Len(guiLog) : IsOp(guiLog[i], op)

\* C16: within one pass the restart is attempted only directly after
\* write_config returned a non-temporary result, mount verification only
\* directly after that restart returned exit code 0; after a temporary
\* result or a raising write neither is attempted.
C16_RestartThenVerify ==
    /\ Len(guiLog) <= 3
    /\ \A i \in 1..Len(guiLog) :
        /\ IsOp(guiLog[i], "write_config") => i = 1
        /\ IsOp(guiLog[i], "restart") =>
              /\ i = 2
              /\ guiLog[1] = LogEntry("write_config", "saved", -1)
        /\ IsOp(guiLog[i], "verify_mounts") =>
              /\ i = 3
              /\ guiLog[2] = LogEntry("restart", "returned", 0)
    /\ (guiLog # <<>> /\ guiLog[1].out \in {"temporary", "raised"}
          => ~LogHas("restart") /\ ~LogHas("verify_mounts"))

PassOver == passStack = <<>> /\ guiPasses > 0

C16_Witness ==
    /\ PassOver
    /\ guiLog = << LogEntry("write_config", "saved", -1),
                   LogEntry("restart", "returned", 0),
                   LogEntry("verify_mounts", "called", -1) >>

\* A pass whose write came back temporary ended without restart.
C16_WitnessTemporary ==
    /\ PassOver
    /\ ~dirty
    /\ guiLog = << LogEntry("write_config", "temporary", -1) >>

\* A state-mutating action is handled / a pass starts.
EditStep == guiEdits' = guiEdits + 1
PassStart == guiPasses' = guiPasses + 1

C17_EditRule ==
    EditStep /\ ~is_applying =>
        /\ dirty'
        /\ apply_timer' = DEBOUNCE_MS
        /\ pending_apply_reason' = ReasonOf(guiLastEdit')

C17_PassRule ==
    PassStart =>
        /\ apply_timer = 0
        /\ guiBurst >= 1
        /\ guiReason' = ReasonOf(guiLastEdit)
        /\ apply_timer' = TimerOff
        /\ guiBurst' = 0

MissedByEndedPass == guiMissed > 0 /\ ~is_applying

\* C29: an action made while a pass is in flight is not lost: once that
\* pass has ended the session is dirty or a later pass is scheduled.
C29_Original ==
    MissedByEndedPass => dirty \/ apply_timer # TimerOff

C29_MissedRule ==
    EditStep /\ is_applying =>
        /\ dirty'
        /\ apply_timer = TimerOff
        /\ apply_timer' = TimerOff
        /\ pending_apply_reason' = pending_apply_reason

\* What holds: an action made during a pass sets the dirty flag and starts
\* no timer; after a pass that returned early the session is still dirty.
ActionDuringPassStartsNoTimer ==
    /\ [][C29_MissedRule]_vars
    /\ [][PassAt("failed") /\ ~is_applying' /\ guiMissed > 0 => dirty']_vars

(***************************************************************************)
(* Main window: the service status indicator                               *)
(***************************************************************************)
MaxStatusCalls == 6

\* messages[state][0] in _set_service_state
StatusMessage(state) ==
    CASE state = "running" -> "El servicio autofs está activo."
      [] state = "stopped" -> "El servicio autofs está detenido."
      [] state = "checking" -> "Verificando el estado del servicio..."
      [] state = "unknown" -> "No fue posible determinar el estado del servicio autofs."

\* _set_service_state(state, description): the new _last_status_state and log
set_service_state_LogFirst(previous, log, state) ==
    [last |-> state,
     log |-> IF state # previous THEN Append(log, StatusMessage(state)) ELSE log]

set_service_state(previous, log, state) ==
    [last |-> state,
     log |-> IF state # previous /\ previous # None
             THEN Append(log, StatusMessage(state))
             ELSE log]

\* What service("status") can do: raise, or return rc and a text.
StatusTexts ==
    { <<"Active:", " ", "active", " (", "running", ")">>,
      <<"Active:", " ", "activating">>,
      <<"Active:", " ", "inactive">>,
      <<"active:", " ", "failed">>,
      <<>> }

LowerWord(c) == IF c = "Active:" THEN "active:" ELSE c
LowerText(t) == [i \in 1..Len(t) |-> LowerWord(t[i])]

\* _check_service_status: the state handed to _set_service_state
check_service_status(raised, rc, out) ==
    LET text == LowerText(out)
    IN  IF raised THEN "unknown"
        ELSE IF rc = 0 /\ Contains(text, <<"active:">>) /\ Contains(text, <<"running">>)
        THEN "running"
        ELSE IF Contains(text, <<"activating">>) \/ Contains(text, <<"starting">>)
        THEN "checking"
        ELSE IF Contains(text, <<"inactive">>) \/ Contains(text, <<"failed">>) \/ rc # 0
        THEN "stopped"
        ELSE "unknown"

StatusInit ==
    /\ last_status_state = None
    /\ statusLog = <<>>
    /\ statusCalls = 0
    /\ statusPc = "created"

SetServiceState(state) ==
    LET r == set_service_state(last_status_state, statusLog, state)
    IN  /\ last_status_state' = r.last
        /\ statusLog' = r.log
        /\ statusCalls' = statusCalls + 1

\* _start_status_monitor: _set_service_state("checking", ...)
StatusMonitorStart ==
    /\ UNCHANGED notStatus
    /\ statusPc = "created"
    /\ SetServiceState("checking")
    /\ statusPc' = "started"

\* _check_service_status, called once by _start_status_monitor and then by
\* status_timer every 5 seconds
StatusCheck ==
    /\ UNCHANGED notStatus
    /\ statusPc \in {"started", "polling"}
    /\ statusCalls < MaxStatusCalls
    /\ \E raised \in BOOLEAN, rc \in {0, 3}, out \in StatusTexts :
          SetServiceState(check_service_status(raised, rc, out))
    /\ statusPc' = "polling"

StatusNext == StatusMonitorStart \/ StatusCheck

SetStateStep == statusCalls' = statusCalls + 1

C21_LogRule ==
    SetStateStep =>
        IF last_status_state # None /\ last_status_state' # last_status_state
        THEN statusLog' = Append(statusLog, StatusMessage(last_status_state'))
        ELSE statusLog' = statusLog

\* C21: over any sequence of status polls, every _set_service_state call
\* appends exactly one log line (the message of the new state) when the new
\* state differs from the previous one and a previous one exists, and
\* appends nothing when the state is unchanged or is the first state set.
C21_OneLinePerTransition == [][C21_LogRule]_vars

\* Four calls: the first state, an unchanged state and two transitions.
C21_Witness ==
    /\ statusCalls = 4
    /\ Len(statusLog) = 2
    /\ statusLog[1] = StatusMessage("running")
    /\ statusLog[2] = StatusMessage("stopped")
    /\ last_status_state = "stopped"

(***************************************************************************)
(* Master options parser                                                   *)
(***************************************************************************)
MaxMasterTokens == 3

TimeoutKey == <<"--timeout", "=">>

\* str.split(): the maximal runs of non-whitespace
RECURSIVE SplitWs(_)
SplitWs(s) ==
    LET t == LStrip(s)
        ends == {i \in 1..Len(t) : t[i] \in WhiteSpace}
        cut == IF ends = {} THEN Len(t) + 1
               ELSE CHOOSE i \in ends : \A j \in ends : i <= j
    IN  IF t = <<>> THEN <<>>
        ELSE <<SubSeq(t, 1, cut - 1)>> \o SplitWs(SubSeq(t, cut, Len(t)))

\* int(s) for a token value: an optional sign, then digits
PyInt(s) ==
    LET signed == s # <<>> /\ s[1] \in {"-", "+"}
        digits == IF signed THEN Tail(s) ELSE s
    IN  IF IsInt(digits)
        THEN [ok |-> TRUE,
              v |-> IF signed /\ s[1] = "-" THEN 0 - StrToInt(digits)
                    ELSE StrToInt(digits)]
        ELSE [ok |-> FALSE, v |-> 0]

\* the for loop of parse_master_options over the tokens, `to` so far
RECURSIVE TimeoutLoop(_, _)
TimeoutLoop(toks, to) ==
    IF toks = <<>> THEN to
    ELSE IF StartsWith(toks[1], TimeoutKey)
    THEN LET n == PyInt(Split1(toks[1], "=")[2])
         IN  TimeoutLoop(Tail(toks), IF n.ok THEN n.v ELSE to)
    ELSE TimeoutLoop(Tail(toks), to)

\* UseCases.parse_master_options
parse_master_options(txt) ==
    [timeout |-> TimeoutLoop(SplitWs(txt), 120),
     ghost |-> Contains(txt, <<"--ghost">>)]

\* Tokens a master file text is made of.
MasterTokens ==
    { <<"/-">>,
      <<"--ghost">>,
      <<"#", "--ghost">>,
      TimeoutKey \o <<"5">>,
      TimeoutKey \o <<"9", "0">>,
      TimeoutKey \o <<"-", "1">>,
      TimeoutKey \o <<"x">>,
      TimeoutKey,
      <<"x", "--timeout", "=", "7">> }

MasterSeparators == { <<" ">>, <<"\n">>, <<" ", "\t">> }

NoOptions == [timeout |-> -1, ghost |-> FALSE]

MoInit ==
    /\ moTokens \in UNION {[1..n -> MasterTokens] : n \in 0..MaxMasterTokens}
    /\ \E sep \in MasterSeparators : master_txt = Join(moTokens, sep)
    /\ moPc = "start"
    /\ moRes = NoOptions

MoIdle ==
    /\ moTokens = <<>>
    /\ master_txt = <<>>
    /\ moPc = "start"
    /\ moRes = NoOptions

MoParse ==
    /\ UNCHANGED notMo
    /\ moPc = "start"
    /\ moRes' = parse_master_options(master_txt)
    /\ moPc' = "parsed"
    /\ UNCHANGED <<master_txt, moTokens>>

MoNext == MoParse

\* The tokens of the text that start with `--timeout=`, in order.
TimeoutTokens == SelectSeq(moTokens, LAMBDA t : StartsWith(t, TimeoutKey))

ValueOf(tok) == SubSeq(tok, Len(TimeoutKey) + 1, Len(tok))

\* C23 as stated: ghost is true iff the text contains `--ghost`; timeout is
\* the integer of the first whitespace-delimited token that starts with
\* `--timeout=`, or 120 when there is none or its value is not an integer.
C23_Original ==
    moPc = "parsed" =>
        /\ moRes.ghost = (\E i \in 1..Len(moTokens) : Contains(moTokens[i], <<"--ghost">>))
        /\ moRes.timeout =
              IF TimeoutTokens # <<>> /\ PyInt(ValueOf(TimeoutTokens[1])).ok
              THEN PyInt(ValueOf(TimeoutTokens[1])).v
              ELSE 120

\* What holds instead: the last such token whose value is an integer decides.
ParsableTimeoutTokens ==
    SelectSeq(TimeoutTokens, LAMBDA t : PyInt(ValueOf(t)).ok)

LastParsableTimeoutWins ==
    moPc = "parsed" =>
        /\ moRes.ghost = (\E i \in 1..Len(moTokens) : Contains(moTokens[i], <<"--ghost">>))
        /\ moRes.timeout =
              IF ParsableTimeoutTokens # <<>>
              THEN PyInt(ValueOf(ParsableTimeoutTokens[Len(ParsableTimeoutTokens)])).v
              ELSE 120

(***************************************************************************)
(* Command line: the options of build                                      *)
(***************************************************************************)
\* An argparse option: given with a value, or left out (None).
Given(v) == [given |-> TRUE, v |-> v]
NotGivenInt == [given |-> FALSE, v |-> 0]
NotGivenBool == [given |-> FALSE, v |-> FALSE]

\* _resolve_entries: the timeout and ghost of each of the three sources
resolve_options(source, args, st, sys) ==
    CASE source = "from_state" ->
            [timeout |-> IF args.timeout.given THEN args.timeout.v
                         ELSE Get(st, "master_timeout", 120),
             ghost |-> IF ~args.ghost.given THEN Get(st, "master_ghost", TRUE)
                       ELSE args.ghost.v]
      [] source = "entries_json" ->
            [timeout |-> IF args.timeout.given /\ args.timeout.v # 0
                         THEN args.timeout.v ELSE 120,
             ghost |-> IF args.ghost.given THEN args.ghost.v ELSE TRUE]
      [] source = "system" ->
            [timeout |-> IF args.timeout.given THEN args.timeout.v ELSE sys.timeout,
             ghost |-> IF args.ghost.given THEN args.ghost.v ELSE sys.ghost]

\* States the GUI has saved: the master options vary.
StoredStates ==
    { [DefaultAppState EXCEPT !.master_options = mo] :
        mo \in [timeout : {120, 0, 90}, ghost : BOOLEAN] }

ReInit ==
    /\ reSource \in {"from_state", "entries_json", "system"}
    /\ reArgs \in [timeout : {NotGivenInt, Given(0), Given(30)},
                   ghost : {NotGivenBool, Given(TRUE), Given(FALSE)}]
    /\ reStored \in StoredStates
    /\ reFile \in {FileAbsent, save_state(AppState_to_dict(reStored))}
    /\ reSystem \in [timeout : {120, 60}, ghost : BOOLEAN]
    /\ rePc = "start"
    /\ reRes = NoOptions

ReIdle ==
    /\ reSource = "system"
    /\ reArgs = [timeout |-> NotGivenInt, ghost |-> NotGivenBool]
    /\ reStored = DefaultAppState
    /\ reFile = FileAbsent
    /\ reSystem = MasterOptionsDefaults
    /\ rePc = "start"
    /\ reRes = NoOptions

\* _resolve_entries(args)
ReResolve ==
    /\ UNCHANGED notRe
    /\ rePc = "start"
    /\ reRes' = resolve_options(reSource, reArgs, load_state(reFile), reSystem)
    /\ rePc' = "resolved"
    /\ UNCHANGED <<reSource, reArgs, reStored, reFile, reSystem>>

ReNext == ReResolve

FromStateResolved ==
    rePc = "resolved" /\ reSource = "from_state" /\ reFile.kind = "json"

\* C24 as stated: build --from-state without --timeout and --ghost builds
\* with the timeout and ghost of the master options in the persisted state
\* file; a supplied --timeout or --ghost, --timeout 0 and a false --ghost
\* included, overrides the stored value.
C24_Original ==
    FromStateResolved =>
        /\ reRes.timeout = IF reArgs.timeout.given THEN reArgs.timeout.v
                           ELSE reStored.master_options.timeout
        /\ reRes.ghost = IF reArgs.ghost.given THEN reArgs.ghost.v
                         ELSE reStored.master_options.ghost

\* What holds instead: supplied values override; without them the result is
\* 120 and true whatever the file stores.
FromStateIgnoresMasterOptions ==
    FromStateResolved =>
        /\ reRes.timeout = IF reArgs.timeout.given THEN reArgs.timeout.v ELSE 120
        /\ reRes.ghost = IF reArgs.ghost.given THEN reArgs.ghost.v ELSE TRUE

(***************************************************************************)
(* Main window: construction and the initial load from the system          *)
(***************************************************************************)
\* Window geometry as _remember_ui_state stores it.
GeometryHex == <<"0", "1", "d", "9">>

FileMissing == [exists |-> FALSE, text |-> <<>>]
FilePresent(text) == [exists |-> TRUE, text |-> text]

\* self.files.read(path) or "" on an installed file
ReadInstalled(file) == ReadOrEmpty(file.exists, TRUE, file.text)

\* UseCases.load_from_system
load_from_system_AlwaysParse(master, map) ==
    [entries |-> parse_map_text(ReadInstalled(map)),
     options |-> parse_master_options(ReadInstalled(master))]

load_from_system(master, map) ==
    LET master_txt_ == ReadInstalled(master)
        map_txt == ReadInstalled(map)
    IN  [entries |-> IF map_txt # <<>> THEN parse_map_text(map_txt) ELSE <<>>,
         options |-> IF master_txt_ # <<>> THEN parse_master_options(master_txt_)
                     ELSE [timeout |-> 120, ghost |-> TRUE]]

\* The state files, master files and map files found at start.
StartStates ==
    { [entries |-> <<GoodEntry>>, master_options |-> [timeout |-> 90, ghost |-> FALSE],
       ui |-> UIStateDefaults],
      [entries |-> <<>>, master_options |-> [timeout |-> 0, ghost |-> TRUE],
       ui |-> [UIStateDefaults EXCEPT !.active_tab = 1]] }

StartStateFiles ==
    {FileAbsent, FileCorrupt, FileJson(<<>>),
     FileJson([master_options |-> [timeout |-> <<"9", "0">>, bogus |-> <<"1">>]])}
    \cup {save_state(AppState_to_dict(st)) : st \in StartStates}

InstalledMasters ==
    {FileMissing, FilePresent(<<>>)}
    \cup {FilePresent(build_master_file(MAP_FILE_PATH, t, g)) :
              t \in {120, 90, 0}, g \in BOOLEAN}

InstalledEntryLists ==
    {es \in {<<>>, <<GoodEntry>>} \cup {<<e, GoodEntry>> : e \in StateEntries} :
        build_map_file(es, FALSE).ok}

InstalledMaps ==
    {FileMissing, FilePresent(<<>>)}
    \cup {FilePresent(build_map_file(es, FALSE).text) : es \in InstalledEntryLists}

SuInit ==
    /\ suPc = "new"
    /\ suStateFile \in StartStateFiles
    /\ suMaster \in InstalledMasters
    /\ suMap \in InstalledMaps
    /\ suApp = DefaultAppState
    /\ suDirty = FALSE
    /\ suSaved = "none"

SuIdle ==
    /\ suPc = "new"
    /\ suStateFile = FileAbsent
    /\ suMaster = FileMissing
    /\ suMap = FileMissing
    /\ suApp = DefaultAppState
    /\ suDirty = FALSE
    /\ suSaved = "none"

\* _load_initial_state, then __init__ up to _start_status_monitor
SuLoadInitialState ==
    /\ UNCHANGED notSu
    /\ suPc = "new"
    /\ LET data == load_state(suStateFile)
           st == AppState_from_dict(data)
       IN  suApp' = IF DOMAIN data # {} /\ st.ok THEN st.v ELSE DefaultAppState
    /\ suDirty' = FALSE
    /\ suPc' = "constructed"
    /\ UNCHANGED <<suStateFile, suMaster, suMap, suSaved>>

\* _load_from_system(initial=True) up to _mark_dirty(False); an entry that
\* SshfsEntry.from_dict rejects ends __init__ with the TypeError.
\* load_from_system itself does not raise: read gives None on any error and
\* both parsers swallow theirs.
SuLoadFromSystem ==
    /\ UNCHANGED notSu
    /\ suPc = "constructed"
    /\ LET r == load_from_system(suMaster, suMap)
           es == [i \in 1..Len(r.entries) |-> SshfsEntry_from_dict(r.entries[i])]
       IN  IF \A i \in 1..Len(es) : es[i].ok
           THEN /\ suApp' = [suApp EXCEPT
                                !.entries = [i \in 1..Len(es) |-> es[i].v],
                                !.master_options.timeout = r.options.timeout,
                                !.master_options.ghost = r.options.ghost]
                /\ suDirty' = FALSE
                /\ suPc' = "loaded"
           ELSE /\ suPc' = "crashed"
                /\ UNCHANGED <<suApp, suDirty>>
    /\ UNCHANGED <<suStateFile, suMaster, suMap, suSaved>>

\* try: self._save_state(silent=True) / except Exception: pass. open(..., "w")
\* fails and leaves the file, or json.dump fails after the file was truncated.
SuSaveState ==
    /\ UNCHANGED notSu
    /\ suPc = "loaded"
    /\ suApp' = [suApp EXCEPT !.ui.window_geometry = GeometryHex]
    /\ \/ /\ suStateFile' = save_state(AppState_to_dict(suApp'))
          /\ suSaved' = "written"
       \/ /\ suStateFile' \in {suStateFile, FileCorrupt}
          /\ suSaved' = "failed"
    /\ suPc' = "done"
    /\ UNCHANGED <<suMaster, suMap, suDirty>>

SuNext == SuLoadInitialState \/ SuLoadFromSystem \/ SuSaveState

(***************************************************************************)
(* Claims about the start of the main window                               *)
(***************************************************************************)
StartupComplete == suPc = "done"

\* What the installed files parse to: nothing and the defaults for a file
\* that is absent or empty.
InstalledEntries ==
    LET es == parse_map_text(ReadInstalled(suMap))
    IN  [i \in 1..Len(es) |-> SshfsEntry_from_dict(es[i]).v]

InstalledOptions ==
    IF ReadInstalled(suMaster) = <<>> THEN MasterOptionsDefaults
    ELSE parse_master_options(ReadInstalled(suMaster))

SessionFromSystem ==
    /\ suApp.entries = InstalledEntries
    /\ suApp.master_options = InstalledOptions
    /\ ~suDirty

StateFileRewritten == suStateFile = save_state(AppState_to_dict(suApp))

C30_WitnessNotWritten ==
    /\ StartupComplete
    /\ suSaved = "failed"
    /\ ~suMaster.exists
    /\ ~suMap.exists
    /\ suApp.entries = <<>>
    /\ suApp.master_options = MasterOptionsDefaults
    /\ suStateFile \in {save_state(AppState_to_dict(st)) : st \in StartStates}

(***************************************************************************)
(* Specifications: one per component, the others standing still            *)
(***************************************************************************)
Init == SudoInit /\ DiscInit /\ MapIdle /\ FuseIdle /\ CliIdle /\ StIdle /\ GuiInit /\ StatusInit /\ MoIdle /\ ReIdle /\ SuIdle

SpecSudo == Init /\ [][SudoNext]_vars

\* run_sudo runs to its end once entered: the loop head, the prompt and the
\* sudo -S run (which has a timeout) each complete.
SpecSudoLive ==
    SpecSudo /\ WF_vars(SudoLoop) /\ WF_vars(SudoAsk) /\ WF_vars(SudoExec)

SpecDisc == Init /\ [][DiscNext]_vars

InitMap == SudoInit /\ DiscInit /\ MapInit /\ FuseIdle /\ CliIdle /\ StIdle /\ GuiInit /\ StatusInit /\ MoIdle /\ ReIdle /\ SuIdle

SpecMap == InitMap /\ [][MapNext]_vars

InitFuse == SudoInit /\ DiscInit /\ MapIdle /\ FuseInit /\ CliIdle /\ StIdle /\ GuiInit /\ StatusInit /\ MoIdle /\ ReIdle /\ SuIdle

SpecFuse == InitFuse /\ [][FuseNext]_vars

InitCli == SudoInit /\ DiscInit /\ MapIdle /\ FuseIdle /\ CliInit /\ StIdle /\ GuiInit /\ StatusInit /\ MoIdle /\ ReIdle /\ SuIdle

SpecCli == InitCli /\ [][CliNext]_vars

InitState == SudoInit /\ DiscInit /\ MapIdle /\ FuseIdle /\ CliIdle /\ StInit /\ GuiInit /\ StatusInit /\ MoIdle /\ ReIdle /\ SuIdle

SpecState == InitState /\ [][StNext]_vars

SpecStatus == Init /\ [][StatusNext]_vars

InitMo == SudoInit /\ DiscInit /\ MapIdle /\ FuseIdle /\ CliIdle /\ StIdle /\ GuiInit /\ StatusInit /\ MoInit /\ ReIdle /\ SuIdle

SpecMo == InitMo /\ [][MoNext]_vars

InitRe == SudoInit /\ DiscInit /\ MapIdle /\ FuseIdle /\ CliIdle /\ StIdle /\ GuiInit /\ StatusInit /\ MoIdle /\ ReInit /\ SuIdle

SpecRe == InitRe /\ [][ReNext]_vars

InitSu == SudoInit /\ DiscInit /\ MapIdle /\ FuseIdle /\ CliIdle /\ StIdle /\ GuiInit /\ StatusInit /\ MoIdle /\ ReIdle /\ SuInit

SpecSu == InitSu /\ [][SuNext]_vars

SpecGui == Init /\ [][GuiNext]_vars

\* Time passes on a running timer and an expired timer fires: both happen
\* in whichever event loop is running.
SpecGuiLive == SpecGui /\ WF_vars(GuiTick) /\ WF_vars(GuiApplyFire)

====
